---- MODULE Spec2Model ----
(***************************************************************************)
(* Model of the codeval execution service (executor.js, server.js,         *)
(* TestRunner.java): one request travelling through the POST /execute      *)
(* handler and executeCode, with the child processes it spawns.            *)
(*                                                                         *)
(* Strings are modelled as texts: sequences of fragments.  A fragment is a *)
(* record [k, a, b]; k names the piece of text (for a literal, k is the    *)
(* literal itself), a and b are the numbers or table indexes that appear   *)
(* in it.  The empty string is <<>> and concatenation is \o.  The regular  *)
(* expressions of the source are evaluated fragment by fragment.           *)
(***************************************************************************)
EXTENDS Integers, Sequences, FiniteSets, TLC

(***************************************************************************)
(* Bounds of the model.                                                    *)
(***************************************************************************)
\* longest stdout of a child process, in fragments
MaxOutLen == 2
\* largest count printed in a test runner's summary
MaxCount == 1

(***************************************************************************)
(* JavaScript values.                                                      *)
(***************************************************************************)
Undefined == [t |-> "undefined"]
Null == [t |-> "null"]
Num(n) == [t |-> "number", v |-> n]
Str(x) == [t |-> "string", v |-> x]
Bool(b) == [t |-> "boolean", v |-> b]
Arr(s) == [t |-> "array", v |-> s]

Frag(k, a, b) == [k |-> k, a |-> a, b |-> b]
Lit(s) == Frag(s, 0, 0)
\* a string made of one literal
S(s) == Str(<<Lit(s)>>)
EmptyStr == Str(<<>>)

\* JavaScript truthiness (used by !x, x || y, x ? a : b)
Truthy(v) ==
  CASE v.t = "undefined" -> FALSE
    [] v.t = "null" -> FALSE
    [] v.t = "number" -> v.v # 0
    [] v.t = "string" -> v.v # <<>>
    [] v.t = "boolean" -> v.v
    [] OTHER -> TRUE

\* x || y
OrElse(x, y) == IF Truthy(x) THEN x ELSE y

\* a default parameter value applies exactly when the argument is undefined
DefaultParam(v, d) == IF v = Undefined THEN d ELSE v

\* the sequences over alphabet of length at most n
SeqsUpTo(alphabet, n) == UNION {[1..m -> alphabet] : m \in 0..n}

\* index of the first fragment of text whose kind is in kinds, 0 when none
FirstIdx(text, kinds) ==
  IF \E i \in 1..Len(text) : text[i].k \in kinds
    THEN CHOOSE i \in 1..Len(text) :
           text[i].k \in kinds /\ \A j \in 1..(i - 1) : text[j].k \notin kinds
    ELSE 0

\* index of the last fragment of text whose kind is in kinds, 0 when none
LastIdx(text, kinds) ==
  IF \E i \in 1..Len(text) : text[i].k \in kinds
    THEN CHOOSE i \in 1..Len(text) :
           text[i].k \in kinds /\ \A j \in (i + 1)..Len(text) : text[j].k \notin kinds
    ELSE 0

\* the fragments of text whose kind is in kinds, in order (String.matchAll)
RECURSIVE SelectFrags(_, _)
SelectFrags(text, kinds) ==
  IF text = <<>> THEN <<>>
  ELSE IF Head(text).k \in kinds THEN <<Head(text)>> \o SelectFrags(Tail(text), kinds)
       ELSE SelectFrags(Tail(text), kinds)

\* String.prototype.split on separator fragments: the pieces between separators
RECURSIVE SplitAt(_, _)
SplitAt(text, seps) ==
  LET i == FirstIdx(text, seps)
  IN  IF i = 0 THEN <<text>>
      ELSE <<SubSeq(text, 1, i - 1)>> \o SplitAt(SubSeq(text, i + 1, Len(text)), seps)

\* parts[n] of a split, undefined (here: absent) when the split has fewer parts
PartOrEmpty(parts, n) == IF Len(parts) >= n THEN parts[n] ELSE <<>>

(***************************************************************************)
(* String.prototype.toLowerCase on the language names of the model.        *)
(***************************************************************************)
LowerFrag(f) ==
  CASE f.k = "JAVA" -> Lit("java")
    [] f.k = "Java" -> Lit("java")
    [] f.k = "CPP" -> Lit("cpp")
    [] f.k = "Python" -> Lit("python")
    [] OTHER -> f

toLowerCase(text) == [i \in DOMAIN text |-> LowerFrag(text[i])]

(***************************************************************************)
(* extractClassName: first match of /public\s+class\s+(\w+)/ in the code,  *)
(* the code being a sequence of whitespace-separated words.                *)
(***************************************************************************)
IsWord(f) == f.k \notin {"{", "}", "(", ")", "="}

ClassMatchAt(javaCode, i) ==
  /\ i + 2 <= Len(javaCode)
  /\ javaCode[i] = Lit("public")
  /\ javaCode[i + 1] = Lit("class")
  /\ IsWord(javaCode[i + 2])

HasClassName(javaCode) == \E i \in 1..Len(javaCode) : ClassMatchAt(javaCode, i)

extractClassName(javaCode) ==
  LET i == CHOOSE i \in 1..Len(javaCode) :
             ClassMatchAt(javaCode, i) /\ \A j \in 1..(i - 1) : ~ClassMatchAt(javaCode, j)
  IN  <<javaCode[i + 2]>>

(***************************************************************************)
(* parsePytestOutput.  Fragments of a pytest transcript:                   *)
(*   "N passed, M failed" (a = N, b = M), "M failed, N passed" (a = M,     *)
(*   b = N; the order pytest prints), "N passed" (a = N), "M failed"       *)
(*   (a = M), "=== FAILURES ===" (the header rule), "==========" (any      *)
(*   other rule of ten or more '='), "failure block" (a = index of the     *)
(*   test name, 0 for none; b = index of the assertion text), "noise".     *)
(***************************************************************************)
PassedFailedKinds == {"N passed, M failed"}
PassedKinds == {"N passed, M failed", "M failed, N passed", "N passed"}
FailedKinds == {"N passed, M failed", "M failed, N passed", "M failed"}

\* group 1 of /(\d+) passed/ in a fragment that matches it
PassedGroup(f) == IF f.k = "M failed, N passed" THEN f.b ELSE f.a
\* group 1 of /(\d+) failed/ in a fragment that matches it
FailedGroup(f) == IF f.k = "N passed, M failed" THEN f.b ELSE f.a

\* the totals when only the combined pattern is consulted
PytestTotalsCombinedOnly(output) ==
  LET m == FirstIdx(output, PassedFailedKinds)
      p == IF m # 0 THEN output[m].a ELSE 0
      f == IF m # 0 THEN output[m].b ELSE 0
  IN  [tests_run |-> p + f, passed |-> p, failed |-> f]

PytestTotals(output) ==
  LET m == FirstIdx(output, PassedFailedKinds)
      sp == FirstIdx(output, PassedKinds)
      sf == FirstIdx(output, FailedKinds)
      p == IF m # 0 THEN output[m].a
           ELSE IF sp # 0 THEN PassedGroup(output[sp]) ELSE 0
      f == IF m # 0 THEN output[m].b
           ELSE IF sf # 0 THEN FailedGroup(output[sf]) ELSE 0
  IN  [tests_run |-> p + f, passed |-> p, failed |-> f]

\* output.split(/={10,} FAILURES ={10,}/)[1]?.split(/={10,}/)[0] || ''
PytestFailureBlocks(output) ==
  LET parts == SplitAt(output, {"=== FAILURES ==="})
  IN  IF Len(parts) < 2 THEN <<>>
      ELSE SplitAt(parts[2], {"=========="})[1]

\* One match of the failure pattern.  Group 3, (.*?), is followed only by a
\* lazy \s*? and an optional group, so it always matches the empty string and
\* group 4 never participates: failedExpr = '' and evaluated = ''.
PytestFailure(match, index, stdout, stderr) ==
  LET test_case == IF match.a # 0 THEN Str(<<Frag("test name", match.a, 0)>>)
                   ELSE Str(<<Frag("Test N", index, 0)>>)
      assertionLine == <<Frag("assertion", match.b, 0)>>
      failedExpr == <<>>
      evaluated == <<>>
      eqParts == SplitAt(failedExpr, {"=="})
  IN  [test_case |-> test_case,
       expected |-> Str(PartOrEmpty(eqParts, 2)),
       received |-> Str(IF evaluated # <<>> THEN evaluated ELSE eqParts[1]),
       error_message |-> Str(<<Lit("Assertion failed: ")>> \o assertionLine),
       rawout |-> Str(stdout \o <<Lit("\n")>> \o stderr)]

parsePytestOutput(output, stdout, stderr) ==
  LET totals == PytestTotals(output)
      matches == SelectFrags(PytestFailureBlocks(output), {"failure block"})
  IN  [tests_run |-> Num(totals.tests_run),
       passed |-> Num(totals.passed),
       failed |-> Num(totals.failed),
       failure_details |->
         Arr([i \in 1..Len(matches) |-> PytestFailure(matches[i], i, stdout, stderr)])]

(***************************************************************************)
(* parseCppTestOutput.  Fragments of a CxxTest transcript:                 *)
(*   "Running cxxtest tests (N tests)" (a = N),                            *)
(*   "Failed F and Skipped S of T tests" (a = F, b = T),                   *)
(*   "Failed F and Skipped S of 1 test" (a = F; what CxxTest prints for a  *)
(*   suite of one test), "Error: Expected (L), found (R)" (a, b = indexes  *)
(*   of the expressions L and R in ExprText), "noise".                     *)
(***************************************************************************)
\* the expressions that appear in assertion messages, as words
ExprText(id) ==
  CASE id = 1 -> <<Lit("add(-1, 1)"), Lit("=="), Lit("1")>>
    [] id = 2 -> <<Lit("0"), Lit("!="), Lit("1")>>
    [] OTHER -> <<Lit("x")>>

\* Object.prototype.toString / Error.prototype.toString / String
ToStringJS(v) ==
  CASE v.t = "string" -> v.v
    [] v.t = "error" -> <<Lit("Error: ")>> \o v.message
    [] OTHER -> <<Lit("[object Object]")>>

CppFailure(match, index, stdout, stderr) ==
  LET lhs == ExprText(match.a)
      rhs == ExprText(match.b)
      eqPart == PartOrEmpty(SplitAt(lhs, {"=="}), 2)
      nePart == SplitAt(rhs, {"!="})[1]
  IN  [test_case |-> Str(<<Frag("Test N", index, 0)>>),
       expected |-> Str(IF eqPart # <<>> THEN eqPart ELSE lhs),
       received |-> Str(IF nePart # <<>> THEN nePart ELSE rhs),
       error_message |-> S("AssertionError: Output did not match expected result"),
       rawout |-> Str(stdout \o <<Lit("\n")>> \o stderr),
       stderr |-> Str(stderr)]

\* the totals when the announced number of tests is kept as the total
CppTotalsAnnounced(text) ==
  LET totalMatch == FirstIdx(text, {"Running cxxtest tests (N tests)"})
      failedMatch == FirstIdx(text, {"Failed F and Skipped S of T tests"})
      failed_tests == IF failedMatch # 0 THEN text[failedMatch].a ELSE 0
      total_tests == IF totalMatch # 0 THEN text[totalMatch].a
                     ELSE IF failedMatch # 0 THEN text[failedMatch].b ELSE 0
  IN  [tests_run |-> total_tests,
       passed |-> total_tests - failed_tests,
       failed |-> failed_tests]

CppTotals(text) ==
  LET totalMatch == FirstIdx(text, {"Running cxxtest tests (N tests)"})
      failedMatch == FirstIdx(text, {"Failed F and Skipped S of T tests"})
      failed_tests == IF failedMatch # 0 THEN text[failedMatch].a ELSE 0
      total_tests == IF failedMatch # 0 THEN text[failedMatch].b
                     ELSE IF totalMatch # 0 THEN text[totalMatch].a ELSE 0
  IN  [tests_run |-> total_tests,
       passed |-> total_tests - failed_tests,
       failed |-> failed_tests]

\* output is any JavaScript value; stdout and stderr default to '' when undefined
parseCppTestOutput(output, stdoutArg, stderrArg) ==
  LET text == ToStringJS(output)
      stdout == DefaultParam(stdoutArg, EmptyStr).v
      stderr == DefaultParam(stderrArg, EmptyStr).v
      totals == CppTotals(text)
      failureMatches == SelectFrags(text, {"Error: Expected (L), found (R)"})
  IN  [tests_run |-> Num(totals.tests_run),
       passed |-> Num(totals.passed),
       failed |-> Num(totals.failed),
       failure_details |->
         Arr([i \in 1..Len(failureMatches) |->
                CppFailure(failureMatches[i], i, stdout, stderr)])]

(***************************************************************************)
(* The Java path: extraction of the JSON document from the harness stdout. *)
(* Fragments: "{...}" (a complete JSON object, a = its index in JsonDocs), *)
(* "{" and "}" (a lone brace), "5" and "null" (JSON scalars), "noise".     *)
(***************************************************************************)
\* what TestRunner.java prints for a failure
JavaFailureDetail ==
  [test_case |-> S("testAdd(MainTest)"),
   expected |-> S("1"),
   received |-> S("0"),
   error_message |-> S("expected:<1> but was:<0>"),
   rawout |-> EmptyStr]

JsonObject(state, tests_run, passed, failed, failure_details, ete) ==
  [t |-> "object", state |-> state, tests_run |-> tests_run, passed |-> passed,
   failed |-> failed, failure_details |-> failure_details,
   execution_time_exceeded |-> ete, memory_exceeded |-> Undefined]

\* The documents a harness process can print.  1, 2 and 3 are what
\* TestRunner.java builds: no failure; one failing test; one test that fails
\* in its body and again in its @After method (JUnit counts one run and two
\* failures, so passed = getRunCount() - getFailureCount() = -1).  4 is another
\* well-formed object, which code under test can write to the process's stdout.
JsonDocs ==
  <<JsonObject(S("passed"), Num(1), Num(1), Num(0), Arr(<<>>), Undefined),
    JsonObject(S("failed"), Num(1), Num(0), Num(1), Arr(<<JavaFailureDetail>>), Undefined),
    JsonObject(S("failed"), Num(1), Num(-1), Num(2),
               Arr(<<JavaFailureDetail, JavaFailureDetail>>), Undefined),
    JsonObject(S("compile_error"), Num(1), Num(1), Num(0), Arr(<<>>), Bool(TRUE))>>

EmptyJsonObject ==
  JsonObject(Undefined, Undefined, Undefined, Undefined, Undefined, Undefined)

OpenKinds == {"{...}", "{"}
CloseKinds == {"{...}", "}"}

\* stdout.indexOf('{'), in fragments before the brace; -1 when there is none
JsonStart(stdout) ==
  LET i == FirstIdx(stdout, OpenKinds) IN IF i = 0 THEN -1 ELSE i - 1

\* stdout.indexOf('}') + 1: the first closing brace instead of the last
JsonEndFirst(stdout) == FirstIdx(stdout, CloseKinds)

\* stdout.lastIndexOf('}') + 1, in fragments up to and including the brace
JsonEnd(stdout) == LastIdx(stdout, CloseKinds)

\* String.prototype.substring swaps its arguments when start > end
Substring(text, start, end) ==
  LET lo == IF start <= end THEN start ELSE end
      hi == IF start <= end THEN end ELSE start
  IN  SubSeq(text, lo + 1, hi)

\* JSON.parse: the parsed value, or a SyntaxError
JsonParse(text) ==
  IF Len(text) = 1 /\ text[1].k = "{...}" THEN [ok |-> TRUE, value |-> JsonDocs[text[1].a]]
  ELSE IF text = <<Lit("{"), Lit("}")>> THEN [ok |-> TRUE, value |-> EmptyJsonObject]
  ELSE IF text = <<Lit("5")>> THEN [ok |-> TRUE, value |-> Num(5)]
  ELSE IF text = <<Lit("null")>> THEN [ok |-> TRUE, value |-> Null]
  ELSE [ok |-> FALSE, value |-> Undefined]

\* property access on a parsed value: undefined for a missing property
Prop(value, name) ==
  IF value.t = "object" THEN value[name] ELSE Undefined

\* JSON.parse(`"${testCode}"`): fragments of test code are "code" (characters
\* that need no escape), "\\n" (the two-character escape sequence), "newline"
\* (a raw line break) and "quote" (a raw double quote)
JsonDecodable(testCode) ==
  \A i \in 1..Len(testCode) : testCode[i].k \notin {"newline", "quote"}

JsonDecode(testCode) ==
  [i \in DOMAIN testCode |->
     IF testCode[i].k = "\\n" THEN Lit("newline") ELSE testCode[i]]

(***************************************************************************)
(* The state of the service while it handles one request.                  *)
(***************************************************************************)
VARIABLES
  pc,        \* where the request is: the await it is suspended on
  req,       \* the request body
  http,      \* the HTTP response: status 0 until it is sent
  response,  \* executeCode's response object
  config,    \* executeCode's executionConfig
  output,    \* executeCode's output variable
  dir,       \* the workspace directory on disk
  files,     \* the files in the workspace
  procs,     \* the child processes spawned so far, with runProgram's closure
  session,   \* checkSession's view of the request: cookie, session id, store reply
  invoked,   \* the number of calls of executeCode
  shared,    \* the files in the server's own working directory
  peer       \* a second request in progress, while it is suspended at an await

vars ==
  <<pc, req, http, response, config, output, dir, files, procs, session, invoked,
    shared, peer>>

(***************************************************************************)
(* The inputs: request bodies and what the environment can answer.         *)
(***************************************************************************)
Languages == {Undefined, EmptyStr, S("cpp"), S("java"), S("python"), S("ruby"), S("CPP")}
Codes ==
  {Undefined, EmptyStr,
   Str(<<Lit("int"), Lit("main")>>),
   Str(<<Lit("public"), Lit("class"), Lit("Main")>>)}
Stdins == {Undefined, S("in")}
ExpectedOutputs == {Undefined, EmptyStr, S("5")}
RunTestsValues == {Undefined, Bool(FALSE), Bool(TRUE)}
TestCodes ==
  {Undefined, EmptyStr, S("code"),
   Str(<<Lit("code"), Lit("\\n")>>),
   Str(<<Lit("code"), Lit("newline")>>),
   Str(<<Lit("public"), Lit("class"), Lit("FooTest")>>)}

\* The request bodies.  Two fields are varied only where the code reads them:
\* expectedOutput is read by the output comparison alone, which a request with
\* runTests and testCode never reaches, and the words of the code are inspected
\* by extractClassName alone, which runs for Java.  A test source that declares
\* a public class of its own is a JUnit source: it comes with Java test requests.
\* A test source with an escape sequence, which the decoding turns into another
\* text, comes with Python requests.
Bodies ==
  {b \in [language : Languages, code : Codes, stdin : Stdins,
          expectedOutput : ExpectedOutputs, runTests : RunTestsValues,
          testCode : TestCodes] :
     /\ (Truthy(b.runTests) /\ Truthy(b.testCode)) => b.expectedOutput = Undefined
     /\ (b.language # S("java") /\ Truthy(b.code)) => b.code = Str(<<Lit("int"), Lit("main")>>)
     /\ (b.testCode # Undefined /\ \E i \in 1..Len(b.testCode.v) : b.testCode.v[i].k = "\\n")
          => b.language = S("python")
     /\ (b.testCode # Undefined /\ HasClassName(b.testCode.v))
          => (b.language = S("java") /\ Truthy(b.runTests) /\ Truthy(b.code) /\ b.stdin = Undefined)}

Counts == 1..MaxCount

PlainAlphabet == {Lit("5"), Lit("x")}
PytestAlphabet ==
  {Frag("N passed, M failed", n, m) : n \in Counts, m \in Counts}
    \cup {Frag("M failed, N passed", m, n) : n \in Counts, m \in Counts}
    \cup {Frag("N passed", n, 0) : n \in Counts}
    \cup {Frag("M failed", m, 0) : m \in Counts}
    \cup {Lit("=== FAILURES ==="), Lit("=========="), Lit("noise")}
    \cup {Frag("failure block", n, 1) : n \in 0..1}
CppAlphabet ==
  {Frag("Running cxxtest tests (N tests)", n, 0) : n \in 1..(MaxCount + 1)}
    \cup {Frag("Failed F and Skipped S of T tests", f, t) :
            f \in Counts, t \in 0..(MaxCount + 1)}
    \cup {Frag("Failed F and Skipped S of 1 test", 1, 0)}
    \cup {Frag("Error: Expected (L), found (R)", 1, 2),
          Frag("Error: Expected (L), found (R)", 0, 0)}
    \cup {Lit("noise")}
JavaNoise == {Lit("{"), Lit("}"), Lit("5"), Lit("null"), Lit("noise")}
JavaAlphabet == {Frag("{...}", d, 0) : d \in 1..Len(JsonDocs)} \cup JavaNoise

\* a document of the harness with text printed before it and after it
EmbeddedDocs ==
  {<<before, Frag("{...}", d, 0), after>> :
     before \in JavaNoise, d \in 1..Len(JsonDocs), after \in JavaNoise}

Stderrs == {<<>>, <<Lit("stderr text")>>}
ExitCodes == {Num(0), Num(1), Null}

(***************************************************************************)
(* executeCode's view of its arguments.                                    *)
(***************************************************************************)
\* runTests = false and testCode = '' are default parameter values
runTests == DefaultParam(req.runTests, Bool(FALSE))
testCode == DefaultParam(req.testCode, EmptyStr)
\* language.toLowerCase()
Lang == toLowerCase(req.language.v)

IsLang(name) == Lang = <<Lit(name)>>

UniqueDir == <<Lit("<uniqueDir>")>>

InitResponse ==
  [state |-> S("execution_error"),
   tests_run |-> Num(0),
   passed |-> Num(0),
   failed |-> Num(0),
   failure_details |-> Arr(<<>>),
   compilation_error |-> EmptyStr,
   runtime_error |-> EmptyStr,
   execution_time_exceeded |-> Bool(FALSE),
   memory_exceeded |-> Bool(FALSE)]

\* response.name: undefined for a property the object does not have
ResponseProp(r, name) == IF name \in DOMAIN r THEN r[name] ELSE Undefined

\* configureExecution with a default case that falls back to the Python
\* settings instead of returning null
configureExecutionDefaultPython(language, code) ==
  LET lang == toLowerCase(language)
  IN  CASE lang = <<Lit("cpp")>> ->
             [extension |-> <<Lit(".cpp")>>, compileCommand |-> "g++",
              runCommand |-> "<uniqueDir>/program",
              runArgs |-> <<>>,
              className |-> <<>>]
        [] lang = <<Lit("java")>> ->
             [extension |-> <<Lit(".java")>>, compileCommand |-> "javac",
              runCommand |-> "java",
              runArgs |-> <<<<Lit("-cp")>>, UniqueDir, extractClassName(code)>>,
              className |-> extractClassName(code)]
        [] OTHER ->
             [extension |-> <<Lit(".py")>>, compileCommand |-> "",
              runCommand |-> "python3",
              runArgs |-> <<UniqueDir \o <<Lit("/program"), Lit(".py")>>>>,
              className |-> <<>>]

configureExecution(language, code) ==
  LET lang == toLowerCase(language)
  IN  CASE lang = <<Lit("python")>> ->
             [extension |-> <<Lit(".py")>>, compileCommand |-> "",
              runCommand |-> "python3",
              runArgs |-> <<UniqueDir \o <<Lit("/program"), Lit(".py")>>>>,
              className |-> <<>>]
        [] lang = <<Lit("cpp")>> ->
             [extension |-> <<Lit(".cpp")>>, compileCommand |-> "g++",
              runCommand |-> "<uniqueDir>/program",
              runArgs |-> <<>>,
              className |-> <<>>]
        [] lang = <<Lit("java")>> ->
             [extension |-> <<Lit(".java")>>, compileCommand |-> "javac",
              runCommand |-> "java",
              runArgs |-> <<<<Lit("-cp")>>, UniqueDir, extractClassName(code)>>,
              className |-> extractClassName(code)]
        [] OTHER -> Null

\* configureExecution throws for Java code without a public class
ConfigureThrows(language, code) ==
  toLowerCase(language) = <<Lit("java")>> /\ ~HasClassName(code)

\* the file name writeCodeToFile chooses
SourceFileName(extension, className) ==
  IF className # <<>> THEN className \o extension ELSE <<Lit("program")>> \o extension

\* fs.writeFile creates or replaces the file
WriteFile(fs, name, content) ==
  {f \in fs : f.name # name} \cup {[name |-> name, content |-> content]}

(***************************************************************************)
(* Child processes.  A process record keeps what spawn was given and the   *)
(* variables of the promise executor that spawned it: finished and timer   *)
(* (runProgram), and the promise: whether it has been settled, a digest of *)
(* the value it was settled with, and the number of calls of resolve and   *)
(* reject made by the handlers.  For a run child it also keeps what the    *)
(* process reported: the exit code of its 'close' event (undefined until   *)
(* then) and whether 'error' was emitted.  For a compile child it keeps    *)
(* compileCode's variable stderr as the 'close' handler reads it, which it *)
(* does when the exit code is not 0.                                       *)
(***************************************************************************)
\* path.dirname of a command: the workspace for the binaries built in it, and
\* "." for a bare command name, which runProgram passes to spawn as the cwd
Dirname(command) ==
  IF command \in {"<uniqueDir>/program", "<uniqueDir>/runner"} THEN "<uniqueDir>"
  ELSE "."

NewProc(kind, command, args, stdinText) ==
  [kind |-> kind, command |-> command, args |-> args, stdin |-> stdinText,
   cwd |-> IF kind = "run" THEN Dirname(command) ELSE "<uniqueDir>",
   alive |-> TRUE, killed |-> FALSE, finished |-> FALSE,
   timer |-> IF kind = "run" THEN "pending" ELSE "none",
   settled |-> FALSE, outcome |-> Undefined, calls |-> 0,
   code |-> Undefined, spawnFailed |-> FALSE, stderr |-> <<>>]

\* compileCode(command, args, cwd) up to its spawn
SpawnCompile(st, command, args, next) ==
  [st EXCEPT !.procs = Append(@, NewProc("compile", command, args, <<>>)),
             !.pc = next]

\* runProgram(command, args, stdin) up to the registration of its handlers:
\* stdin defaults to '', and is written only when it is not empty
SpawnRun(st, command, args, stdin, next) ==
  LET s == DefaultParam(stdin, EmptyStr)
  IN  [st EXCEPT !.procs = Append(@, NewProc("run", command, args,
                                             IF Truthy(s) THEN s.v ELSE <<>>)),
                 !.pc = next]

\* what a run child can print, by the program it runs
OutputsOf(proc) ==
  IF proc.command = "pytest" THEN SeqsUpTo(PytestAlphabet, MaxOutLen)
  ELSE IF proc.command = "<uniqueDir>/runner" THEN SeqsUpTo(CppAlphabet, MaxOutLen)
  ELSE IF proc.command = "java" /\ proc.args[Len(proc.args)] = <<Lit("TestRunner")>>
    THEN SeqsUpTo(JavaAlphabet, MaxOutLen) \cup EmbeddedDocs
  ELSE SeqsUpTo(PlainAlphabet, MaxOutLen)

CodeText(code) == IF code = Null THEN <<Lit("null")>> ELSE <<Frag("number", code.v, 0)>>

\* the values runProgram settles its promise with
RunResolved(out, err) ==
  [ok |-> TRUE, message |-> <<>>, stdout |-> Str(out), stderr |-> Str(err)]
RunExitError(code, out, err) ==
  [ok |-> FALSE, message |-> <<Lit("Execution failed with code ")>> \o CodeText(code),
   stdout |-> Str(out), stderr |-> Str(err)]
\* a timeout reported as the exit of a killed child, with its output
RunTimeoutErrorAsExit ==
  [ok |-> FALSE, message |-> <<Lit("Execution failed with code "), Lit("null")>>,
   stdout |-> EmptyStr, stderr |-> EmptyStr]
RunTimeoutError ==
  [ok |-> FALSE, message |-> <<Lit("Execution timed out")>>,
   stdout |-> Undefined, stderr |-> Undefined]
SpawnError(command) ==
  [ok |-> FALSE, message |-> <<Lit("spawn "), Lit(command), Lit(" ENOENT")>>,
   stdout |-> Undefined, stderr |-> Undefined]

(***************************************************************************)
(* executeCode, cut at its awaits.  Each operator below takes the state of *)
(* the call (the record Cur) at the point where the code resumes and       *)
(* returns its state at the next await.                                    *)
(***************************************************************************)
Cur ==
  [pc |-> pc, http |-> http, response |-> response, config |-> config,
   output |-> output, dir |-> dir, files |-> files, procs |-> procs,
   shared |-> shared]

Apply(st) ==
  /\ pc' = st.pc
  /\ http' = st.http
  /\ response' = st.response
  /\ config' = st.config
  /\ output' = st.output
  /\ dir' = st.dir
  /\ files' = st.files
  /\ procs' = st.procs
  /\ shared' = st.shared
  /\ UNCHANGED <<session, invoked, peer>>

\* leaving the try block, by return or by falling through: the finally block
\* calls cleanupDir, which awaits fs.rm
Finally(st) == [st EXCEPT !.pc = "cleanup"]

\* catch (err): runtime_error = err.message, state = execution_error
Catch(st, message) ==
  Finally([st EXCEPT !.response.runtime_error = Str(message),
                     !.response.state = S("execution_error")])

\* a catch that files the compiler's failure as a runtime error
CompileErrorAsRuntimeError(st, message) ==
  Finally([st EXCEPT !.response.state = S("runtime_error"),
                     !.response.runtime_error = Str(message)])

\* catch (compilationError): state = compile_error, return response
CompileErrorReturn(st, message) ==
  Finally([st EXCEPT !.response.state = S("compile_error"),
                     !.response.compilation_error = Str(message)])

\* the rejection of executeCode's promise reaches the handler's catch
Rejected(st, message) ==
  [st EXCEPT !.http = [status |-> 500, body |-> [error |-> Str(message)]],
             !.pc = "responded"]

\* "Run the main program"
RunMain(st) ==
  SpawnRun(st, st.config.runCommand, st.config.runArgs, req.stdin, "runPlain")

\* "Execute the program or tests", test branch: choose the runner's command
RunTestProgram(st) ==
  LET cmd == IF IsLang("python") THEN "pytest"
             ELSE IF IsLang("cpp") THEN "<uniqueDir>/runner"
             ELSE IF IsLang("java") THEN "java"
             ELSE st.config.runCommand
      args == IF IsLang("python") THEN <<UniqueDir \o <<Lit("/test_program.py")>>>>
              ELSE IF IsLang("cpp") THEN <<>>
              ELSE IF IsLang("java")
                THEN <<<<Lit("-cp")>>, UniqueDir \o <<Lit(":junit:hamcrest")>>,
                       <<Lit("TestRunner")>>>>
              ELSE st.config.runArgs
      st1 == [st EXCEPT !.config.runCommand = cmd, !.config.runArgs = args]
  IN  SpawnRun(st1, cmd, args, req.stdin, "runTest")

\* "If tests are to be run, handle test scripts": decode, then handleTestSetup
\* up to its first await, which is fs.writeFile for each language
TestSetup(st) ==
  IF ~JsonDecodable(testCode.v)
    THEN CompileErrorReturn(st, <<Lit("SyntaxError: bad character in string literal")>>)
    ELSE [st EXCEPT !.pc = "writeTest"]

\* the code after the plain compile: if (runTests && testCode) ... else ...
AfterCompile(st) ==
  IF Truthy(runTests) /\ Truthy(testCode) THEN TestSetup(st) ELSE RunMain(st)

compilationHandler(st) ==
  IF st.config.compileCommand = "g++"
    THEN SpawnCompile(st, "g++",
                      <<<<Lit("-o")>>, UniqueDir \o <<Lit("/program")>>,
                        UniqueDir \o <<Lit("/program"), Lit(".cpp")>>>>,
                      "compilePlain")
  ELSE IF st.config.compileCommand = "javac"
    THEN SpawnCompile(st, "javac",
                      <<<<Lit("-d")>>, UniqueDir,
                        UniqueDir \o <<Lit("/")>> \o st.config.className \o <<Lit(".java")>>>>,
                      "compilePlain")
  ELSE AfterCompile(st)

\* the code after writeCodeToFile: if (!runTests) compilationHandler
AfterWriteCode(st) ==
  IF ~Truthy(runTests) THEN compilationHandler(st) ELSE AfterCompile(st)

\* "Compare output with expected output"
Comparator(st) ==
  LET passed == IF ResponseProp(st.response, "stdout") = req.expectedOutput THEN 1 ELSE 0
      failed == IF passed = 0 THEN 1 ELSE 0
      detail == [test_case |-> Num(1),
                 expected |-> req.expectedOutput,
                 received |-> st.output.stdout,
                 error_message |-> S("Output did not match expected output"),
                 rawout |-> Str(st.output.stdout.v \o st.output.stderr.v)]
  IN  [st EXCEPT !.response.tests_run = Num(1),
                 !.response.passed = Num(passed),
                 !.response.failed = Num(failed),
                 !.response.state = IF passed = 1 THEN S("passed") ELSE S("failed"),
                 !.response.failure_details =
                    IF failed # 0 THEN Arr(Append(@.v, detail)) ELSE @]

\* merge of a parser's result, as in the Python and C++ branches
MergeTestResults(st, testResults) ==
  [st EXCEPT !.response.tests_run = testResults.tests_run,
             !.response.passed = testResults.passed,
             !.response.failed = testResults.failed,
             !.response.failure_details = testResults.failure_details,
             !.response.state =
                IF testResults.failed = Num(0) THEN S("passed") ELSE S("failed")]

ParsePython(st) ==
  Finally(MergeTestResults(st,
    parsePytestOutput(st.output.stdout.v, st.output.stdout.v, st.output.stderr.v)))

ParseCpp(st) ==
  Finally(MergeTestResults(st,
    parseCppTestOutput(OrElse(st.output.stdout, st.output),
                       st.output.stdout, st.output.stderr)))

\* "For Java, parse JSON output from tests"
AdoptJava(st) ==
  LET stdout == ToStringJS(OrElse(st.output.stdout, st.output))
      jsonStart == JsonStart(stdout)
      jsonEnd == JsonEnd(stdout)
      parsed == JsonParse(Substring(stdout, jsonStart, jsonEnd))
      testResults == parsed.value
  IN  IF jsonStart = -1 \/ jsonEnd = -1
        THEN Catch(st, <<Lit("Invalid JSON structure in Java test stdout")>>)
      ELSE IF ~parsed.ok
        THEN Catch(st, <<Lit("Failed to parse JSON from Java test output")>>)
      ELSE IF testResults = Null
        THEN Catch(st, <<Lit("Cannot read properties of null (reading 'state')")>>)
      ELSE Finally([st EXCEPT !.response =
             [state |-> Prop(testResults, "state"),
              tests_run |-> Prop(testResults, "tests_run"),
              passed |-> Prop(testResults, "passed"),
              failed |-> Prop(testResults, "failed"),
              failure_details |-> Prop(testResults, "failure_details"),
              compilation_error |-> OrElse(st.response.compilation_error, EmptyStr),
              runtime_error |-> OrElse(st.response.runtime_error, EmptyStr),
              execution_time_exceeded |->
                OrElse(Prop(testResults, "execution_time_exceeded"), Bool(FALSE)),
              memory_exceeded |->
                OrElse(Prop(testResults, "memory_exceeded"), Bool(FALSE))]])

\* "Run program with Test Cases": the await of runProgram and what follows.
\* The C++ branch assigns output again, on both paths of its own try/catch,
\* before it reads it: the value assigned here is dead in that branch, and
\* the model does not keep it while the second run is awaited.
AfterRunTest(st, outcome) ==
  LET st1 == IF outcome.ok
               THEN [st EXCEPT !.output = [t |-> "object", stdout |-> outcome.stdout,
                                           stderr |-> outcome.stderr]]
               ELSE [st EXCEPT !.response.state = S("failed"),
                               !.output = [t |-> "object",
                                           stdout |-> OrElse(outcome.stdout, EmptyStr),
                                           stderr |-> OrElse(outcome.stderr, EmptyStr)],
                               !.response.runtime_error = Str(outcome.message)]
  IN  IF IsLang("python") THEN ParsePython(st1)
      ELSE IF IsLang("cpp")
        THEN SpawnRun([st1 EXCEPT !.config.runCommand = "<uniqueDir>/runner",
                                  !.config.runArgs = <<>>,
                                  !.output = Undefined],
                      "<uniqueDir>/runner", <<>>, req.stdin, "runCpp2")
      ELSE AdoptJava(st1)

\* the C++ branch's own await of runProgram, and the parse
AfterRunCpp2(st, outcome) ==
  LET st1 == IF outcome.ok
               THEN [st EXCEPT !.output = [t |-> "object", stdout |-> outcome.stdout,
                                           stderr |-> outcome.stderr]]
               ELSE [st EXCEPT !.response.state = S("failed"),
                               !.response.runtime_error = Str(outcome.message),
                               !.output = [t |-> "error", message |-> outcome.message,
                                           stdout |-> outcome.stdout,
                                           stderr |-> outcome.stderr]]
  IN  ParseCpp(st1)

\* AfterRunPlain without the Python case of its catch: every failed run is a
\* runtime_error
AfterRunPlainAlwaysRuntimeError(st, outcome) ==
  IF outcome.ok
    THEN Finally(Comparator([st EXCEPT !.output = [t |-> "object",
                                                   stdout |-> outcome.stdout,
                                                   stderr |-> outcome.stderr]]))
    ELSE Finally([st EXCEPT !.response.state = S("runtime_error"),
                            !.response.runtime_error = Str(outcome.message)])

\* "Run the main program": the await of runProgram and what follows
AfterRunPlain(st, outcome) ==
  IF outcome.ok
    THEN Finally(Comparator([st EXCEPT !.output = [t |-> "object",
                                                   stdout |-> outcome.stdout,
                                                   stderr |-> outcome.stderr]]))
    ELSE Finally([st EXCEPT !.response.state =
                               IF IsLang("python") THEN S("failed") ELSE S("runtime_error"),
                            !.response.runtime_error = Str(outcome.message)])

AfterRun(st, outcome) ==
  CASE st.pc = "runPlain" -> AfterRunPlain(st, outcome)
    [] st.pc = "runTest" -> AfterRunTest(st, outcome)
    [] st.pc = "runCpp2" -> AfterRunCpp2(st, outcome)

\* the await of a compile step and what follows; outcome.message is the
\* message of the error compileCode rejected with
AfterCompileStep(st, outcome) ==
  CASE st.pc = "compilePlain" ->
         IF outcome.ok THEN AfterCompile(st)
         ELSE CompileErrorReturn(st, outcome.message)
    [] st.pc = "cxxtestgen" ->
         IF outcome.ok
           THEN SpawnCompile(st, "g++",
                  <<<<Lit("-o")>>, UniqueDir \o <<Lit("/runner")>>,
                    UniqueDir \o <<Lit("/runner.cpp")>>,
                    UniqueDir \o <<Lit("/program"), Lit(".cpp")>>>>,
                  "gppRunner")
         ELSE CompileErrorReturn(st, outcome.message)
    [] st.pc = "gppRunner" ->
         IF outcome.ok THEN RunTestProgram(st)
         ELSE CompileErrorReturn(st, outcome.message)
    [] st.pc = "javacTests" ->
         IF outcome.ok THEN RunTestProgram(st)
         ELSE CompileErrorReturn(st, <<Lit("Compilation failed: ")>> \o outcome.message)

(***************************************************************************)
(* Initial state: the server is listening and no request has arrived.      *)
(***************************************************************************)
NoDir == [created |-> 0, removed |-> 0, exists |-> FALSE, fsFailed |-> FALSE]

\* checkSession has not run, or has handed the request on with next()
NoSession == [cookie |-> Undefined, id |-> Undefined, reply |-> Undefined]

Init ==
  /\ pc = "idle"
  /\ req = Undefined
  /\ http = [status |-> 0, body |-> Undefined]
  /\ response = Undefined
  /\ config = Undefined
  /\ output = Undefined
  /\ dir = NoDir
  /\ files = {}
  /\ procs = <<>>
  /\ session = NoSession
  /\ invoked = 0
  /\ shared = {}
  /\ peer = Undefined

(***************************************************************************)
(* The POST /execute handler up to its await of executeCode, which in turn *)
(* runs up to the await of fs.mkdir in createUniqueDirectory.  The handler *)
(* is the first reader of req.body: the body is chosen here.               *)
(***************************************************************************)
\* the handler with a validation that tests the language alone
PostExecuteLanguageOnly ==
  /\ \E body \in Bodies :
       /\ req' = body
       /\ IF ~Truthy(body.language)
            THEN /\ http' = [status |-> 400,
                             body |-> [error |-> S("Language and code fields are required.")]]
                 /\ pc' = "responded"
                 /\ invoked' = invoked
            ELSE /\ http' = http
                 /\ pc' = "mkdir"
                 /\ invoked' = invoked + 1
  /\ UNCHANGED <<response, config, output, dir, files, procs, shared, peer>>

PostExecute ==
  /\ \E body \in Bodies :
       /\ req' = body
       /\ IF ~Truthy(body.language) \/ ~Truthy(body.code)
            THEN /\ http' = [status |-> 400,
                             body |-> [error |-> S("Language and code fields are required.")]]
                 /\ pc' = "responded"
                 /\ invoked' = invoked
            ELSE /\ http' = http
                 /\ pc' = "mkdir"
                 /\ invoked' = invoked + 1
  /\ UNCHANGED <<response, config, output, dir, files, procs, shared, peer>>

(***************************************************************************)
(* checkSession.  A cookie is a text of the fragments "s:" (the prefix of  *)
(* a signed cookie), "s%3A" (the same, percent-encoded), "abc" (a session  *)
(* identifier), "." , "sig" (the signature) and "%" (a percent sign that   *)
(* starts no escape sequence).                                             *)
(***************************************************************************)
Cookies ==
  {Undefined, EmptyStr,
   Str(<<Lit("s:"), Lit("abc"), Lit("."), Lit("sig")>>),
   Str(<<Lit("s%3A"), Lit("abc"), Lit("."), Lit("sig")>>),
   Str(<<Lit("abc"), Lit("."), Lit("sig")>>),
   Str(<<Lit("s:"), Lit("."), Lit("sig")>>),
   Str(<<Lit("%"), Lit("abc")>>)}

\* decodeURIComponent throws on a malformed escape, and the text is kept
decodeURIComponentSafe(str) ==
  IF \E i \in 1..Len(str) : str[i].k = "%" THEN str
  ELSE [i \in DOMAIN str |-> IF str[i].k = "s%3A" THEN Lit("s:") ELSE str[i]]

\* the session identifier checkSession derives from the cookie
SessionId(sessionCookie) ==
  LET decodedCookie == decodeURIComponentSafe(sessionCookie)
      startsWith == decodedCookie # <<>> /\ decodedCookie[1].k = "s:"
  IN  IF startsWith THEN SplitAt(Tail(decodedCookie), {"."})[1]
      ELSE SplitAt(decodedCookie, {"."})[1]

\* what redisClient.get settles with: a rejection, null for a key that is not
\* stored, or the stored string
RedisReplies ==
  {[ok |-> FALSE, value |-> Undefined],
   [ok |-> TRUE, value |-> Null],
   [ok |-> TRUE, value |-> Str(<<Lit("{"), Lit("}")>>)],
   [ok |-> TRUE, value |-> S("noise")]}

\* JSON.parse(sessionData): a value that is no string is converted to one
SessionParse(sessionData) ==
  IF sessionData = Null THEN JsonParse(<<Lit("null")>>) ELSE JsonParse(sessionData.v)

\* a request arrives: cookieParser has filled req.cookies
Receive ==
  /\ pc = "idle"
  /\ \E cookie \in Cookies : session' = [session EXCEPT !.cookie = cookie]
  /\ pc' = "checkSession"
  /\ UNCHANGED <<req, http, response, config, output, dir, files, procs, invoked, shared, peer>>

\* checkSession up to its await of redisClient.get
CheckSession ==
  /\ pc = "checkSession"
  /\ IF ~Truthy(session.cookie)
       THEN /\ http' = [status |-> 401,
                        body |-> [error |-> S("Unauthorized: No session cookie")]]
            /\ pc' = "responded"
            /\ session' = session
       ELSE LET sessionId == SessionId(session.cookie.v)
            IN  /\ session' = [session EXCEPT !.id = Str(sessionId)]
                /\ IF sessionId = <<>>
                     THEN /\ http' = [status |-> 401,
                                      body |-> [error |-> S("Unauthorized: Invalid session ID: ")]]
                          /\ pc' = "responded"
                     ELSE /\ http' = http
                          /\ pc' = "redisGet"
  /\ UNCHANGED <<req, response, config, output, dir, files, procs, invoked, shared, peer>>

\* the promise of redisClient.get settles
RedisGetDone ==
  /\ pc = "redisGet"
  /\ \E reply \in RedisReplies : session' = [session EXCEPT !.reply = reply]
  /\ pc' = "sessionData"
  /\ UNCHANGED <<req, http, response, config, output, dir, files, procs, invoked, shared, peer>>

\* checkSession after its await: JSON.parse, then next(), which runs the
\* handler; an exception is answered by the catch
CheckSessionResume ==
  /\ pc = "sessionData"
  /\ IF ~session.reply.ok \/ ~SessionParse(session.reply.value).ok
       THEN /\ http' = [status |-> 500, body |-> [error |-> S("Internal server error")]]
            /\ pc' = "responded"
            /\ session' = session
            /\ UNCHANGED <<req, response, config, output, dir, files, procs, invoked, shared, peer>>
       ELSE /\ session' = NoSession
            /\ PostExecute

(***************************************************************************)
(* fs.mkdir settles.  executeCode then calls configureExecution, builds    *)
(* the response object, enters the try block and calls writeCodeToFile,    *)
(* which awaits fs.writeFile.                                              *)
(***************************************************************************)
MkdirDone(ok) ==
  /\ pc = "mkdir"
  /\ UNCHANGED req
  /\ IF ~ok
       THEN Apply(Rejected([Cur EXCEPT !.dir.fsFailed = TRUE],
                           <<Lit("EACCES: permission denied, mkdir")>>))
       ELSE LET st == [Cur EXCEPT !.dir.created = @ + 1, !.dir.exists = TRUE]
            IN  IF ConfigureThrows(req.language.v, req.code.v)
                  THEN Apply(Rejected(st, <<Lit("Invalid Java code: public class not found.")>>))
                ELSE LET cfg == configureExecution(req.language.v, req.code.v)
                         st1 == [st EXCEPT !.config = cfg, !.response = InitResponse]
                     IN  IF cfg = Null
                           THEN Apply(Catch(st1,
                                  <<Lit("Cannot read properties of null (reading 'extension')")>>))
                           ELSE Apply([st1 EXCEPT !.pc = "writeCode"])

\* fs.writeFile of the main source settles
WriteCodeDone(ok) ==
  /\ pc = "writeCode"
  /\ UNCHANGED req
  /\ IF ~ok
       THEN Apply(Catch([Cur EXCEPT !.dir.fsFailed = TRUE],
                        <<Lit("EACCES: permission denied, open")>>))
       ELSE Apply(AfterWriteCode(
              [Cur EXCEPT !.files =
                 WriteFile(@, SourceFileName(config.extension, config.className),
                           req.code.v)]))

\* the name of the test file handleTestSetup writes
TestFileName ==
  IF IsLang("python") THEN <<Lit("test_program.py")>>
  ELSE IF IsLang("cpp") THEN <<Lit("test_program.h")>>
  ELSE config.className \o <<Lit("Test.java")>>

(***************************************************************************)
(* handleTestSetup: fs.writeFile of the test file settles.                 *)
(***************************************************************************)
WriteTestDone(ok) ==
  /\ pc = "writeTest"
  /\ UNCHANGED req
  /\ IF ~ok
       THEN Apply(CompileErrorReturn([Cur EXCEPT !.dir.fsFailed = TRUE],
              IF IsLang("python")
                THEN <<Lit("Compilation failed: "), Lit("EACCES: permission denied, open")>>
                ELSE <<Lit("EACCES: permission denied, open")>>))
       ELSE LET st == [Cur EXCEPT !.files =
                         WriteFile(@, TestFileName, JsonDecode(testCode.v))]
            IN  IF IsLang("python") THEN Apply(RunTestProgram(st))
                ELSE IF IsLang("cpp")
                  THEN Apply(SpawnCompile(st, "cxxtestgen",
                         <<<<Lit("--error-printer")>>, <<Lit("-o")>>,
                           UniqueDir \o <<Lit("/runner.cpp")>>,
                           UniqueDir \o <<Lit("/test_program.h")>>>>,
                         "cxxtestgen"))
                ELSE Apply([st EXCEPT !.pc = "copyRunner"])

\* handleTestSetup, Java: fs.copyFile of TestRunner.java settles
CopyRunnerDone(ok) ==
  /\ pc = "copyRunner"
  /\ UNCHANGED req
  /\ IF ~ok
       THEN Apply(CompileErrorReturn([Cur EXCEPT !.dir.fsFailed = TRUE],
                                     <<Lit("ENOENT: no such file, copyfile")>>))
       ELSE Apply(SpawnCompile(
              [Cur EXCEPT !.files =
                 WriteFile(@, <<Lit("TestRunner.java")>>, <<Lit("JUnitCore.runClasses"), Lit("MainTest")>>)],
              "javac",
              <<<<Lit("-cp")>>, <<Lit("junit:hamcrest:")>> \o UniqueDir,
                UniqueDir \o <<Lit("/")>> \o config.className \o <<Lit(".java")>>,
                UniqueDir \o <<Lit("/")>> \o config.className \o <<Lit("Test.java")>>,
                UniqueDir \o <<Lit("/TestRunner.java")>>>>,
              "javacTests"))

(***************************************************************************)
(* compileCode's handlers.  The awaited compile child is the last process  *)
(* spawned.                                                                *)
(***************************************************************************)
CompilePcs == {"compilePlain", "cxxtestgen", "gppRunner", "javacTests"}
RunPcs == {"runPlain", "runTest", "runCpp2"}

\* process.on('close'), with the stderr accumulated by the 'data' handler
CompileClose(code, stderr) ==
  /\ pc \in CompilePcs
  /\ UNCHANGED req
  /\ LET i == Len(procs)
         st == [Cur EXCEPT !.procs[i].alive = FALSE, !.procs[i].settled = TRUE,
                           !.procs[i].code = code,
                           !.procs[i].stderr = IF code # Num(0) THEN stderr ELSE <<>>]
     IN  /\ procs[i].kind = "compile" /\ procs[i].alive
         /\ Apply(AfterCompileStep(st,
              IF code # Num(0)
                THEN [ok |-> FALSE, message |-> <<Lit("Compilation failed: ")>> \o stderr]
                ELSE [ok |-> TRUE, message |-> <<>>]))

\* process.on('error'): the compiler could not be started
CompileError ==
  /\ pc \in CompilePcs
  /\ UNCHANGED req
  /\ LET i == Len(procs)
         st == [Cur EXCEPT !.procs[i].alive = FALSE, !.procs[i].settled = TRUE]
     IN  /\ procs[i].kind = "compile" /\ procs[i].alive
         /\ Apply(AfterCompileStep(st,
              [ok |-> FALSE, message |-> SpawnError(procs[i].command).message]))

(***************************************************************************)
(* runProgram's handlers.  settle(st, i, outcome) is resolve or reject: it *)
(* has an effect only the first time, and then executeCode resumes.        *)
(***************************************************************************)
\* the run children that have not closed yet
AliveRuns == {i \in 1..Len(procs) : procs[i].kind = "run" /\ procs[i].alive}

\* What is kept of the value a promise is settled with: whether it is a
\* result or an error, the error's message, and whether it carries the stdout
\* and stderr the 'data' handlers had accumulated (out, err) when it was made.
Digest(outcome, out, err) ==
  [ok |-> outcome.ok, message |-> outcome.message,
   output |-> IF outcome.stdout = Undefined /\ outcome.stderr = Undefined THEN "none"
              ELSE IF outcome.stdout = Str(out) /\ outcome.stderr = Str(err)
                THEN "captured"
              ELSE "other"]

Settle(st, i, outcome, out, err) ==
  LET st1 == [st EXCEPT !.procs[i].calls = @ + 1]
  IN  IF st.procs[i].settled THEN st1
      ELSE AfterRun([st1 EXCEPT !.procs[i].settled = TRUE,
                                !.procs[i].outcome = Digest(outcome, out, err)],
                    outcome)

\* a setTimeout callback that ends the child and leaves the settling of the
\* promise to the 'close' handler
RunTimerKillOnly(i) ==
  /\ i \in AliveRuns
  /\ procs[i].timer = "pending"
  /\ UNCHANGED req
  /\ Apply([Cur EXCEPT !.procs[i].timer = "fired", !.procs[i].killed = TRUE])

\* the setTimeout callback
RunTimer(i) ==
  /\ i \in AliveRuns
  /\ procs[i].timer = "pending"
  /\ UNCHANGED req
  /\ LET st == [Cur EXCEPT !.procs[i].timer = "fired"]
     IN  IF ~procs[i].finished
           THEN Apply(Settle([st EXCEPT !.procs[i].killed = TRUE], i, RunTimeoutError,
                              <<>>, <<>>))
           ELSE Apply(st)

\* A submitted Python program that keeps a file, named by a relative path, in
\* its working directory: it prints x when the file is there, and otherwise
\* creates the file and prints 5.  It exits with code 0 when it got that far.
ScratchProgram == Str(<<Lit("open"), Lit("scratch")>>)
ScratchFile == [name |-> <<Lit("scratch")>>, content |-> <<>>]

RunsScratchProgram(proc) ==
  /\ proc.kind = "run" /\ proc.command = "python3"
  /\ req.code = ScratchProgram

\* the files a child sees under its working directory
CwdFiles(proc) == IF proc.cwd = "." THEN shared ELSE files

ScratchOutput(proc) ==
  IF ScratchFile \in CwdFiles(proc) THEN <<Lit("x")>> ELSE <<Lit("5")>>

\* the files of the child's working directory after it has run
ScratchEffect(st, i, code) ==
  IF RunsScratchProgram(st.procs[i]) /\ code = Num(0)
    THEN IF st.procs[i].cwd = "."
           THEN [st EXCEPT !.shared = @ \cup {ScratchFile}]
           ELSE [st EXCEPT !.files = @ \cup {ScratchFile}]
    ELSE st

\* What a closing child reports.  Once the promise is settled nothing reads
\* the exit code or the captured output, and one value stands for all.
CloseCodes(proc) == IF proc.settled THEN {Null} ELSE ExitCodes
CloseOutputs(proc, code) ==
  IF proc.settled THEN {<<>>}
  ELSE IF RunsScratchProgram(proc)
    THEN {IF code = Num(0) THEN ScratchOutput(proc) ELSE <<>>}
  ELSE OutputsOf(proc)
CloseStderrs(proc) == IF proc.settled THEN {<<>>} ELSE Stderrs

\* process.on('close'), with the stdout and stderr accumulated by the 'data'
\* handlers; 'close' is emitted after the streams have ended
RunClose(i, code, out, err) ==
  /\ i \in AliveRuns
  /\ UNCHANGED req
  /\ LET st == ScratchEffect([Cur EXCEPT !.procs[i].alive = FALSE,
                                         !.procs[i].code = code], i, code)
     IN  IF ~procs[i].finished
           THEN LET st1 == [st EXCEPT !.procs[i].finished = TRUE,
                                      !.procs[i].timer =
                                         IF @ = "pending" THEN "cleared" ELSE @]
                IN  Apply(Settle(st1, i,
                      IF code # Num(0) THEN RunExitError(code, out, err)
                      ELSE RunResolved(out, err),
                      out, err))
           ELSE Apply(st)

\* process.on('error'): the program could not be started
RunError(i) ==
  /\ i \in AliveRuns
  /\ procs[i].timer = "pending"
  /\ UNCHANGED req
  /\ LET st == [Cur EXCEPT !.procs[i].alive = FALSE, !.procs[i].spawnFailed = TRUE]
     IN  IF ~procs[i].finished
           THEN Apply(Settle([st EXCEPT !.procs[i].finished = TRUE,
                                        !.procs[i].timer = "cleared"],
                             i, SpawnError(procs[i].command), <<>>, <<>>))
           ELSE Apply(st)

(***************************************************************************)
(* cleanupDir: fs.rm settles (a failure is caught and logged), executeCode *)
(* returns its response and the handler sends it with res.json.            *)
(***************************************************************************)
\* CleanupDone without cleanupDir's try/catch: a failure of fs.rm rejects
\* executeCode's promise and the handler answers 500
CleanupDoneRaising(ok) ==
  /\ pc = "cleanup"
  /\ dir' = IF ok THEN [dir EXCEPT !.removed = @ + 1, !.exists = FALSE]
            ELSE [dir EXCEPT !.fsFailed = TRUE]
  /\ files' = IF ok THEN {} ELSE files
  /\ http' = IF ok THEN [status |-> 200, body |-> response]
             ELSE [status |-> 500,
                   body |-> [error |-> S("ENOTEMPTY: directory not empty, rm")]]
  /\ pc' = "responded"
  /\ UNCHANGED <<req, response, config, output, procs, session, invoked, shared, peer>>

CleanupDone(ok) ==
  /\ pc = "cleanup"
  /\ dir' = IF ok THEN [dir EXCEPT !.removed = @ + 1, !.exists = FALSE]
            ELSE [dir EXCEPT !.fsFailed = TRUE]
  /\ files' = IF ok THEN {} ELSE files
  /\ http' = [status |-> 200, body |-> response]
  /\ pc' = "responded"
  /\ UNCHANGED <<req, response, config, output, procs, session, invoked, shared, peer>>

Next ==
  \/ Receive
  \/ CheckSession
  \/ RedisGetDone
  \/ CheckSessionResume
  \/ \E ok \in BOOLEAN : MkdirDone(ok)
  \/ \E ok \in BOOLEAN : WriteCodeDone(ok)
  \/ \E ok \in BOOLEAN : WriteTestDone(ok)
  \/ \E ok \in BOOLEAN : CopyRunnerDone(ok)
  \/ \E code \in ExitCodes, stderr \in Stderrs : CompileClose(code, stderr)
  \/ CompileError
  \/ \E i \in AliveRuns : RunTimer(i)
  \/ \E i \in AliveRuns :
       \E code \in CloseCodes(procs[i]) :
         \E out \in CloseOutputs(procs[i], code), err \in CloseStderrs(procs[i]) :
           RunClose(i, code, out, err)
  \/ \E i \in AliveRuns : RunError(i)
  \/ \E ok \in BOOLEAN : CleanupDone(ok)

Spec == Init /\ [][Next]_vars

(***************************************************************************)
(* Two requests in progress at once.  Node runs one callback at a time, so *)
(* at any moment one call of executeCode is running and the other waits at *)
(* an await: its variables are kept in peer, and Switch hands the thread   *)
(* to it.  The two calls have their own workspace (the uuid in its path),  *)
(* their own files under it and their own children; what they have in      *)
(* common is the server's working directory.  Both requests carry the same *)
(* body and have passed the session gate and the handler's validation.     *)
(***************************************************************************)
PairBody ==
  [language |-> S("python"), code |-> ScratchProgram, stdin |-> Undefined,
   expectedOutput |-> S("5"), runTests |-> Undefined, testCode |-> Undefined]

Context ==
  [pc |-> pc, req |-> req, http |-> http, response |-> response,
   config |-> config, output |-> output, dir |-> dir, files |-> files,
   procs |-> procs, session |-> session, invoked |-> invoked]

Started ==
  [pc |-> "mkdir", req |-> PairBody, http |-> [status |-> 0, body |-> Undefined],
   response |-> Undefined, config |-> Undefined, output |-> Undefined,
   dir |-> NoDir, files |-> {}, procs |-> <<>>, session |-> NoSession,
   invoked |-> 1]

InitPair ==
  /\ pc = Started.pc
  /\ req = Started.req
  /\ http = Started.http
  /\ response = Started.response
  /\ config = Started.config
  /\ output = Started.output
  /\ dir = Started.dir
  /\ files = Started.files
  /\ procs = Started.procs
  /\ session = Started.session
  /\ invoked = Started.invoked
  /\ peer = Started
  /\ shared = {}

Switch ==
  /\ peer # Undefined
  /\ peer' = Context
  /\ pc' = peer.pc
  /\ req' = peer.req
  /\ http' = peer.http
  /\ response' = peer.response
  /\ config' = peer.config
  /\ output' = peer.output
  /\ dir' = peer.dir
  /\ files' = peer.files
  /\ procs' = peer.procs
  /\ session' = peer.session
  /\ invoked' = peer.invoked
  /\ UNCHANGED shared

NextPair ==
  \/ Switch
  \/ \E ok \in BOOLEAN : MkdirDone(ok)
  \/ \E ok \in BOOLEAN : WriteCodeDone(ok)
  \/ \E i \in AliveRuns : RunTimer(i)
  \/ \E i \in AliveRuns :
       \E code \in CloseCodes(procs[i]) :
         \E out \in CloseOutputs(procs[i], code), err \in CloseStderrs(procs[i]) :
           RunClose(i, code, out, err)
  \/ \E i \in AliveRuns : RunError(i)
  \/ \E ok \in BOOLEAN : CleanupDone(ok)

SpecPair == InitPair /\ [][NextPair]_vars

(***************************************************************************)
(* Properties of the Result a request is answered with.                    *)
(***************************************************************************)
\* the request has been answered
Responded == pc = "responded"
\* the request passed the handler's validation, so executeCode was called
Accepted == Responded /\ invoked = 1
\* executeCode returned a Result, which the handler sent
Returned == Responded /\ http.status = 200
Result == http.body

ResultStates ==
  {S("passed"), S("failed"), S("compile_error"), S("runtime_error"),
   S("execution_error"), S("execution_blocked")}

IsCount(v) == v.t = "number" /\ v.v >= 0

\* the run children of the request
Runs == {i \in 1..Len(procs) : procs[i].kind = "run"}

\* C1: for every request handled by executeCode a workspace directory is
\* created exactly once and removed exactly once, and when the call completes
\* the workspace path no longer exists.  Stated for the requests whose
\* filesystem calls all succeed.
C1_WorkspaceCreatedAndRemovedOnce ==
  (Accepted /\ ~dir.fsFailed) =>
    (dir.created = 1 /\ dir.removed = 1 /\ ~dir.exists)

\* C2: executeCode never fails with an exception: every inner error is
\* converted into a Result, so the handler answers every accepted request with
\* HTTP 200 and a Result.  Stated for the requests whose filesystem calls all
\* succeed.
C2_AcceptedRequestGets200 ==
  (Accepted /\ ~dir.fsFailed) => http.status = 200

\* C3: the state of every returned Result is one of the six states.
C3_StateIsOneOfSix ==
  Returned => Result.state \in ResultStates

\* C4: for every returned Result, state = passed if and only if failed = 0
\* and compilation_error and runtime_error are empty.
C4_PassedIffCleanResult ==
  Returned =>
    (Result.state = S("passed")
       <=> (/\ Result.failed = Num(0)
            /\ Result.compilation_error = EmptyStr
            /\ Result.runtime_error = EmptyStr))

\* C5: every returned Result with state = passed has failed = 0 and an empty
\* failure_details.
C5_PassedHasNoFailures ==
  (Returned /\ Result.state = S("passed")) =>
    (Result.failed = Num(0) /\ Result.failure_details = Arr(<<>>))

\* C6: in every returned Result with state passed or failed, tests_run,
\* passed and failed are non-negative integers, passed <= tests_run and
\* passed + failed = tests_run.
C6_CountsAddUp ==
  (Returned /\ Result.state \in {S("passed"), S("failed")}) =>
    /\ IsCount(Result.tests_run) /\ IsCount(Result.passed) /\ IsCount(Result.failed)
    /\ Result.passed.v <= Result.tests_run.v
    /\ Result.passed.v + Result.failed.v = Result.tests_run.v

\* C7: for every returned Result with state = compile_error, runProgram was
\* never called during the request and tests_run = passed = failed = 0.
C7_CompileErrorMeansNeverLaunched ==
  (Returned /\ Result.state = S("compile_error")) =>
    /\ Runs = {}
    /\ Result.tests_run = Num(0) /\ Result.passed = Num(0) /\ Result.failed = Num(0)

\* the request ran in plain mode and its program exited with code 0 before
\* the deadline: the plain branch assigns output only then
PlainRunSucceeded == Returned /\ ~Truthy(runTests) /\ output # Undefined

\* the single failure detail of the output comparison
MismatchDetail ==
  [test_case |-> Num(1),
   expected |-> req.expectedOutput,
   received |-> output.stdout,
   error_message |-> S("Output did not match expected output"),
   rawout |-> Str(output.stdout.v \o output.stderr.v)]

\* C8: in plain mode, when the program exits with code 0 before the deadline,
\* tests_run = 1, and passed = 1 with state = passed exactly when the captured
\* stdout equals expectedOutput; otherwise failed = 1, state = failed and
\* failure_details holds exactly the one mismatch entry.  Stated for the
\* requests that give an expectedOutput.
C8_PlainComparesStdout ==
  (PlainRunSucceeded /\ req.expectedOutput # Undefined) =>
    /\ Result.tests_run = Num(1)
    /\ IF output.stdout = req.expectedOutput
         THEN /\ Result.passed = Num(1) /\ Result.failed = Num(0)
              /\ Result.state = S("passed")
              /\ Result.failure_details = Arr(<<>>)
         ELSE /\ Result.passed = Num(0) /\ Result.failed = Num(1)
              /\ Result.state = S("failed")
              /\ Result.failure_details = Arr(<<MismatchDetail>>)

\* C9: a request that omits expectedOutput passes, in plain mode, exactly when
\* the program's stdout is empty, and a request that omits stdin runs the
\* program with empty standard input.
C9_OmittedFieldsDefaultToEmpty ==
  /\ (PlainRunSucceeded /\ req.expectedOutput = Undefined) =>
       (Result.state = S("passed") <=> output.stdout = EmptyStr)
  /\ (Accepted /\ req.stdin = Undefined) =>
       \A i \in Runs : procs[i].stdin = <<>>

\* C10: whenever the run deadline fired for a program or test harness of the
\* request, the returned Result has execution_time_exceeded = true.
C10_DeadlineSetsTimeExceeded ==
  (Returned /\ \E i \in Runs : procs[i].timer = "fired") =>
    Result.execution_time_exceeded = Bool(TRUE)

(***************************************************************************)
(* Properties of the failure taxonomy.                                     *)
(***************************************************************************)
\* the request reached the test branch: runTests && testCode
TestMode == Truthy(runTests) /\ Truthy(testCode)

\* the run deadline fired for a child of the request
DeadlineFired == \E i \in Runs : procs[i].timer = "fired"

\* C11: when the launched program or test harness does not finish before the
\* deadline, the Result has state = runtime_error for C++ and Java and
\* state = failed for Python, in plain mode and in test mode alike.
C11_TimeoutState ==
  (Returned /\ DeadlineFired) =>
    Result.state = IF IsLang("python") THEN S("failed") ELSE S("runtime_error")

\* a Java request whose code has no match of 'public class <name>'
JavaWithoutClass ==
  /\ req # Undefined
  /\ Truthy(req.language) /\ Truthy(req.code)
  /\ IsLang("java") /\ ~HasClassName(req.code.v)

\* the compile children of the request
Compiles == {i \in 1..Len(procs) : procs[i].kind = "compile"}

\* C14: a Java request whose code contains no match of 'public class <name>'
\* returns a Result with state = compile_error; no file is compiled, no program
\* is launched and the workspace is removed.  Stated for the requests whose
\* filesystem calls all succeed.
C14_JavaWithoutClassIsCompileError ==
  (Responded /\ JavaWithoutClass /\ ~dir.fsFailed) =>
    /\ Returned
    /\ Result.state = S("compile_error")
    /\ procs = <<>>
    /\ ~dir.exists

\* an accepted request whose language is none of cpp, java, python
UnknownLanguage ==
  /\ req # Undefined
  /\ Truthy(req.language) /\ Truthy(req.code)
  /\ Lang \notin {<<Lit("cpp")>>, <<Lit("java")>>, <<Lit("python")>>}

JavaParseFailures ==
  {Str(<<Lit("Invalid JSON structure in Java test stdout")>>),
   Str(<<Lit("Failed to parse JSON from Java test output")>>),
   Str(<<Lit("Cannot read properties of null (reading 'state')")>>)}

\* the request ran its tests and the runner's output was parsed: the pytest
\* and CxxTest parsers accept every text, the Java branch needs a JSON value
HarnessOutputParsed ==
  /\ Returned /\ TestMode /\ Runs # {}
  /\ IsLang("java") => Result.runtime_error \notin JavaParseFailures

\* C16: in test mode, once the harness output has been parsed, the Result's
\* state is passed if and only if its failed count is 0, and failed otherwise.
C16_TestStateFollowsFailedCount ==
  HarnessOutputParsed =>
    Result.state = IF Result.failed = Num(0) THEN S("passed") ELSE S("failed")

\* a test run aborted: the runner missed the deadline, could not be started,
\* or was ended by a signal (its 'close' event reports the code null)
TestRunAborted ==
  /\ TestMode
  /\ \E i \in Runs :
       procs[i].timer = "fired" \/ procs[i].spawnFailed \/ procs[i].code = Null

\* C17: in every Result, compilation_error is non-empty only if state =
\* compile_error, and runtime_error is non-empty only if state is runtime_error
\* or execution_error or a test run aborted; a test run whose runner merely
\* reported failing tests through a nonzero exit code leaves runtime_error
\* empty.  The plain run of a Python program that failed (state = failed, with
\* the failure message in runtime_error) is admitted as well.
C17_ErrorFieldsMatchState ==
  Returned =>
    /\ Result.compilation_error # EmptyStr => Result.state = S("compile_error")
    /\ Result.runtime_error # EmptyStr =>
         \/ Result.state \in {S("runtime_error"), S("execution_error")}
         \/ TestRunAborted
         \/ ~TestMode /\ IsLang("python") /\ Result.state = S("failed")

\* run child i ran to its end and reported an exit code other than 0 (null,
\* the code of a process ended by a signal, included) before the deadline
ExitedNonzero(i) ==
  /\ procs[i].kind = "run"
  /\ procs[i].code \notin {Undefined, Num(0)}
  /\ procs[i].timer # "fired"
  /\ ~procs[i].spawnFailed

\* C12: in plain mode, when the program exits with a nonzero code the Result
\* has state = runtime_error for C++ and Java and state = failed for Python,
\* runtime_error carries the failure message, no output comparison is made
\* (tests_run = passed = failed = 0, failure_details empty) and the workspace
\* is still removed (stated for an fs.rm that succeeds).
C12_PlainNonzeroExit ==
  \A i \in 1..Len(procs) :
    (Returned /\ ~TestMode /\ ExitedNonzero(i)) =>
      /\ Result.state = IF IsLang("python") THEN S("failed") ELSE S("runtime_error")
      /\ Result.runtime_error =
           Str(<<Lit("Execution failed with code ")>> \o CodeText(procs[i].code))
      /\ Result.tests_run = Num(0) /\ Result.passed = Num(0) /\ Result.failed = Num(0)
      /\ Result.failure_details = Arr(<<>>)
      /\ ~dir.fsFailed => (dir.removed = 1 /\ ~dir.exists)

\* a Python program run in plain mode exited with code 1 and was answered
C12_Witness ==
  /\ Returned /\ ~TestMode /\ IsLang("python")
  /\ Len(procs) = 1 /\ ExitedNonzero(1) /\ procs[1].code = Num(1)
  /\ Result.state = S("failed")
  /\ dir.removed = 1

\* a run child of the request could not be started: 'error' was emitted
SpawnFailed == \E i \in Runs : procs[i].spawnFailed

\* C13: when the run step fails because the child process cannot be spawned,
\* the Result has state = execution_error, in plain mode and in test mode,
\* for every language.  The outcome of a plain run whose program failed to
\* start, runtime_error (failed for Python), is admitted as well.
C13_SpawnFailureIsExecutionError ==
  (Returned /\ SpawnFailed) =>
    \/ Result.state = S("execution_error")
    \/ /\ ~TestMode
       /\ Result.state = IF IsLang("python") THEN S("failed") ELSE S("runtime_error")

(***************************************************************************)
(* Properties of the session gate and of the handler's validation.         *)
(***************************************************************************)
\* checkSession is about to decide on a request whose authorization fails:
\* no connect.sid cookie, an empty session identifier, or no session stored
\* under the key that was looked up
AuthorizationFails ==
  \/ /\ pc = "checkSession"
     /\ (~Truthy(session.cookie) \/ SessionId(session.cookie.v) = <<>>)
  \/ /\ pc = "sessionData"
     /\ session.reply = [ok |-> TRUE, value |-> Null]

\* C19: a request whose session authorization fails is answered with HTTP 401,
\* and executeCode is never invoked for it: no workspace is created and no
\* process is spawned.
C19_FailedAuthorizationIs401 ==
  [][AuthorizationFails =>
       /\ pc' = "responded" /\ http'.status = 401
       /\ invoked' = 0 /\ dir' = NoDir /\ procs' = <<>>]_vars

\* the body lacks language or code: missing or empty
LacksRequired == ~Truthy(req.language) \/ ~Truthy(req.code)

\* C20: an authorized request whose body lacks language or lacks code is
\* answered with HTTP 400 and executeCode is never invoked for it; every other
\* authorized request invokes executeCode exactly once.  (req is set when the
\* handler runs, which is when checkSession has passed the request on.)
C20_ValidationGuardsExecuteCode ==
  /\ invoked <= 1
  /\ req # Undefined =>
       IF LacksRequired
         THEN Responded /\ http.status = 400 /\ invoked = 0 /\ dir = NoDir
         ELSE invoked = 1

\* a request with a language and an empty code has been answered with 400
C20_Witness ==
  /\ Responded /\ req # Undefined
  /\ Truthy(req.language) /\ req.code = EmptyStr
  /\ http.status = 400 /\ invoked = 0

\* the program of the request ran to its end before the deadline, exit code 0
RanToEnd ==
  /\ Len(procs) = 1 /\ procs[1].kind = "run"
  /\ procs[1].code = Num(0) /\ procs[1].timer = "cleared"

\* C18: two requests processed concurrently, interleaved at every await, do
\* not affect one another: each is answered with the Result it gets when it
\* runs alone.  Stated for two requests with the same Python program, which
\* alone prints 5: the output the Result reports as received is 5.  Their
\* workspaces, the files written under them and their teardown are separate
\* by construction.
C18_ConcurrentResultEqualsAlone ==
  (Returned /\ req = PairBody /\ RanToEnd) =>
    /\ output.stdout = S("5")
    /\ \A k \in DOMAIN Result.failure_details.v :
         Result.failure_details.v[k].received = S("5")

(***************************************************************************)
(* Teardown, ordering and the run of a child process.                      *)
(***************************************************************************)
\* executeCode reached its try block: the response object exists
EnteredTry == response # Undefined

\* fs.rm of the workspace failed: the request is answered and the directory
\* is still there
CleanupFailed == Responded /\ EnteredTry /\ dir.exists /\ dir.removed = 0

\* C21: a failure while removing the workspace does not change the Result and
\* is not raised to the caller: whether fs.rm fails or succeeds, the request is
\* answered with status 200 and the Result assembled before the teardown.
C21_CleanupFailureKeepsResult ==
  (Responded /\ EnteredTry) => http = [status |-> 200, body |-> response]

\* the removal of the workspace failed after a program was run and compared
C21_Witness ==
  /\ CleanupFailed /\ Returned
  /\ Result = response /\ Result.state = S("failed")
  /\ output # Undefined

\* the request is for a compiled language
CompiledLanguage == IsLang("cpp") \/ IsLang("java")

\* child j is a compile step that completed successfully
CompiledOk(j) ==
  procs[j].kind = "compile" /\ ~procs[j].alive /\ procs[j].code = Num(0)

\* C22: within a request the steps are ordered: the workspace is created
\* before any file is written; for C++ and Java a program or test harness is
\* launched only after a compile step has completed successfully, whatever
\* runTests and testCode are; and the workspace is destroyed only when the
\* Result is assembled and the request is about to be answered.
C22_StepsAreOrdered ==
  /\ files # {} => (dir.created = 1 /\ dir.exists)
  /\ \A i \in Runs :
       CompiledLanguage => \E j \in 1..(i - 1) : CompiledOk(j)
  /\ dir.removed > 0 => (Responded /\ EnteredTry)

\* the outcome the caller of runProgram gets for child i, by the first of the
\* three events: the deadline, 'error', or 'close' with its exit code
FirstEventOutcome(i) ==
  IF procs[i].timer = "fired" THEN RunTimeoutError.message
  ELSE IF procs[i].spawnFailed THEN SpawnError(procs[i].command).message
  ELSE IF procs[i].code = Num(0) THEN <<>>
  ELSE <<Lit("Execution failed with code ")>> \o CodeText(procs[i].code)

\* C23: in runProgram, for every interleaving of the timer, 'close' and
\* 'error', the caller receives exactly one outcome, decided by the first of
\* these events, and once one handler has settled the run no other handler
\* performs its settlement branch: resolve or reject is called at most once.
C23_SingleShotSettlement ==
  \A i \in Runs :
    /\ procs[i].settled =>
         /\ procs[i].outcome.message = FirstEventOutcome(i)
         /\ procs[i].outcome.ok = (procs[i].timer # "fired" /\ procs[i].code = Num(0))
    /\ procs[i].calls <= 1

\* the messages of the errors of a child that exited with a nonzero code
ExitErrorMessages == {RunExitError(code, <<>>, <<>>).message : code \in ExitCodes}

\* child i closed or failed to start before its deadline
EndedBeforeDeadline(i) ==
  /\ procs[i].timer # "fired"
  /\ procs[i].code # Undefined \/ procs[i].spawnFailed

\* C24: in runProgram, when the deadline fires before the child has closed,
\* the child is sent a termination signal and the run fails with a timeout
\* error, which is not the error of a nonzero exit and carries no output; when
\* the child closes or fails to start before the deadline, the timer is
\* cancelled and never fires afterwards.
C24_DeadlineKillsAndCloseCancels ==
  \A i \in Runs :
    /\ procs[i].timer = "fired" =>
         /\ procs[i].killed
         /\ procs[i].settled /\ ~procs[i].outcome.ok
         /\ procs[i].outcome.message = <<Lit("Execution timed out")>>
         /\ procs[i].outcome.message \notin ExitErrorMessages
         /\ procs[i].outcome.output = "none"
    /\ EndedBeforeDeadline(i) => (procs[i].timer = "cleared" /\ ~procs[i].killed)

\* a request was answered after the deadline of its program fired and the
\* killed child closed
C24_Witness ==
  /\ Returned /\ Len(procs) = 1
  /\ procs[1].kind = "run" /\ procs[1].timer = "fired" /\ procs[1].killed
  /\ ~procs[1].alive /\ procs[1].code = Null
  /\ Result.runtime_error = S("Execution timed out")

\* executeCode has assembled its Result
Assembled == pc \in {"cleanup", "responded"} /\ EnteredTry

\* C25: runProgram succeeds, with the complete captured stdout and stderr,
\* exactly when the child closes with exit code 0 before the deadline; when the
\* child closes with another exit code before the deadline it fails with an
\* error that carries the captured stdout and stderr, and in test mode that
\* output is what the executor hands to the parser: the child is the last one
\* launched, whose outcome the variable output holds when the Result is
\* assembled.
C25_ExitOutcomeCarriesOutput ==
  \A i \in Runs :
    /\ procs[i].settled =>
         (procs[i].outcome.ok <=>
            (procs[i].code = Num(0) /\ procs[i].timer = "cleared"))
    /\ (procs[i].settled /\ procs[i].outcome.ok) =>
         procs[i].outcome.output = "captured"
    /\ ExitedNonzero(i) =>
         /\ ~procs[i].outcome.ok /\ procs[i].outcome.output = "captured"
         /\ (TestMode /\ Assembled) => (i = Len(procs) /\ output # Undefined)

(***************************************************************************)
(* The compile steps.                                                      *)
(***************************************************************************)
\* compile child j closed with an exit code other than 0
CompileFailed(j) ==
  procs[j].kind = "compile" /\ procs[j].code \notin {Undefined, Num(0)}

\* text contains part
Contains(text, part) ==
  \E k \in 0..(Len(text) - Len(part)) : SubSeq(text, k + 1, k + Len(part)) = part

\* the commands of the compile children, in the order they were started
RECURSIVE CompileCommands(_)
CompileCommands(ps) ==
  IF ps = <<>> THEN <<>>
  ELSE (IF Head(ps).kind = "compile" THEN <<Head(ps).command>> ELSE <<>>)
       \o CompileCommands(Tail(ps))

\* the compile steps of the request, in the order the pipeline declares them
DeclaredSteps ==
  IF ~Truthy(runTests)
    THEN IF IsLang("cpp") THEN <<"g++">> ELSE IF IsLang("java") THEN <<"javac">> ELSE <<>>
  ELSE IF ~Truthy(testCode) THEN <<>>
  ELSE IF IsLang("cpp") THEN <<"cxxtestgen", "g++">>
  ELSE IF IsLang("java") THEN <<"javac">>
  ELSE <<>>

IsPrefix(a, b) == Len(a) <= Len(b) /\ SubSeq(b, 1, Len(a)) = a

\* C26: a compile step that exits with a nonzero code (plain g++ or javac, or
\* in test mode cxxtestgen, the g++ build of the runner, or the javac build)
\* ends the request with state = compile_error and a compilation_error that
\* contains the stderr of that tool; the steps are started in the declared
\* order and no child is started after a step has failed.
C26_CompileFailureIsCompileError ==
  /\ procs # <<>> => IsPrefix(CompileCommands(procs), DeclaredSteps)
  /\ \A j \in 1..Len(procs) :
       CompileFailed(j) =>
         /\ j = Len(procs)
         /\ Assembled
         /\ response.state = S("compile_error")
         /\ Contains(response.compilation_error.v,
                     <<Lit("Compilation failed: ")>> \o procs[j].stderr)

\* in C++ test mode cxxtestgen succeeded, the g++ build of the runner failed
\* with text on stderr, and the request was answered
C26_Witness ==
  /\ Returned /\ TestMode /\ IsLang("cpp")
  /\ Len(procs) = 2 /\ procs[1].command = "cxxtestgen" /\ procs[1].code = Num(0)
  /\ procs[2].command = "g++" /\ CompileFailed(2)
  /\ procs[2].stderr = <<Lit("stderr text")>>
  /\ Result.state = S("compile_error")

\* the launches of the generated C++ test runner
RunnerLaunches == {i \in Runs : procs[i].command = "<uniqueDir>/runner"}

\* C27: in C++ test mode the generated runner is launched exactly once per
\* request, with the request's stdin, and the Result is derived from the
\* output of that launch.  Stated for the requests whose runner was built.
C27_RunnerLaunchedOnce ==
  (Returned /\ TestMode /\ IsLang("cpp") /\ RunnerLaunches # {}) =>
    /\ \A i, j \in RunnerLaunches : i = j
    /\ \A i \in RunnerLaunches :
         procs[i].stdin = IF Truthy(DefaultParam(req.stdin, EmptyStr))
                            THEN req.stdin.v ELSE <<>>

\* the children of the request that have not terminated
AliveChildren == {i \in 1..Len(procs) : procs[i].alive}

\* C28: within a request the pipeline is sequential: at most one child of the
\* request is alive at any time, also after a timeout, when the child may not
\* exit at once on the termination signal.
C28_OneChildAtATime ==
  \A i, j \in AliveChildren : i = j

(***************************************************************************)
(* The Java profile: the JSON document in the harness's stdout.            *)
(***************************************************************************)
\* the text the Java branch searches, once the harness has run
HarnessStdout == ToStringJS(OrElse(output.stdout, output))

\* the Java harness has run and the Java branch has handled its output
JavaHarnessHandled ==
  /\ Returned /\ TestMode /\ IsLang("java")
  /\ Runs # {} /\ output # Undefined

\* the text from the first opening brace through the last closing brace;
\* empty when a brace is missing or the last closing brace comes first
BraceSpan(stdout) ==
  SubSeq(stdout, FirstIdx(stdout, OpenKinds), LastIdx(stdout, CloseKinds))

\* stdout has no JSON object: a brace is missing, or the text between the
\* first opening and the last closing brace is not valid JSON
MalformedJson(stdout) ==
  \/ FirstIdx(stdout, OpenKinds) = 0
  \/ LastIdx(stdout, CloseKinds) = 0
  \/ ~JsonParse(BraceSpan(stdout)).ok

\* C29: in Java test mode, when the harness stdout has no JSON object or the
\* text from the first opening brace through the last closing brace is not
\* valid JSON (an opening brace without a closing one, and the empty stdout
\* of a failed run, included), the Result has state = execution_error and the
\* workspace is removed (stated for an fs.rm that succeeds).
C29_MalformedJsonIsExecutionError ==
  (JavaHarnessHandled /\ MalformedJson(HarnessStdout)) =>
    /\ Result.state = S("execution_error")
    /\ ~dir.fsFailed => (dir.removed = 1 /\ ~dir.exists)

\* fragment k of stdout is a document of the harness, and the rest of stdout
\* is noise around it
EmbeddedAt(stdout, k) ==
  /\ k \in DOMAIN stdout /\ stdout[k].k = "{...}"
  /\ \A n \in DOMAIN stdout : n # k => stdout[n] \in JavaNoise

\* the Result adopted the five fields of document d
AdoptedDoc(d) ==
  /\ Result.state = JsonDocs[d].state
  /\ Result.tests_run = JsonDocs[d].tests_run
  /\ Result.passed = JsonDocs[d].passed
  /\ Result.failed = JsonDocs[d].failed
  /\ Result.failure_details = JsonDocs[d].failure_details

\* the extraction recovers exactly the document at fragment k
Recovered(stdout, k) ==
  /\ Substring(stdout, JsonStart(stdout), JsonEnd(stdout)) = <<stdout[k]>>
  /\ AdoptedDoc(stdout[k].a)

\* C30: round trip for the Java profile, as claimed: for every document J the
\* TestRunner prints and every noise text before and after J in stdout, the
\* text from the first opening brace to the last closing brace is exactly J,
\* and the Result adopts state, tests_run, passed, failed and failure_details
\* of J.
C30_RoundTripAnyNoise ==
  JavaHarnessHandled =>
    \A k \in DOMAIN HarnessStdout :
      EmbeddedAt(HarnessStdout, k) => Recovered(HarnessStdout, k)

\* the noise around fragment k has no opening brace before the document and
\* no closing brace after it
BraceFreeAround(stdout, k) ==
  /\ \A n \in 1..(k - 1) : stdout[n].k \notin OpenKinds
  /\ \A n \in (k + 1)..Len(stdout) : stdout[n].k \notin CloseKinds

\* C30, amended: the round trip holds for every document J and every noise
\* that has no opening brace before J and no closing brace after J.
C30_RoundTripBraceFreeNoise ==
  JavaHarnessHandled =>
    \A k \in DOMAIN HarnessStdout :
      (EmbeddedAt(HarnessStdout, k) /\ BraceFreeAround(HarnessStdout, k)) =>
        Recovered(HarnessStdout, k)

\* the document of a failing test was recovered from between a stray closing
\* brace before it and a stray opening brace after it
C30_Witness ==
  /\ JavaHarnessHandled
  /\ HarnessStdout = <<Lit("}"), Frag("{...}", 2, 0), Lit("{")>>
  /\ Result.state = S("failed") /\ Result.failed = Num(1)
  /\ Result.failure_details = Arr(<<JavaFailureDetail>>)

(***************************************************************************)
(* The Java test harness files.                                            *)
(***************************************************************************)
\* the public class the request's test source declares
TestClass == extractClassName(JsonDecode(testCode.v))

\* a Java test request whose test source declares a class has had its test
\* source and the TestRunner written, and javac is compiling them
JavaHarnessWritten ==
  /\ pc = "javacTests"
  /\ req # Undefined /\ IsLang("java") /\ TestMode
  /\ HasClassName(JsonDecode(testCode.v))

\* C31: once the Java test files are written, the workspace holds the test
\* source in TESTCLASS.java, TESTCLASS being the public class extracted from
\* the test source, and the copied TestRunner refers to TESTCLASS.
C31_HarnessUsesRequestsTestClass ==
  JavaHarnessWritten =>
    /\ \E f \in files : /\ f.name = TestClass \o <<Lit(".java")>>
                        /\ f.content = JsonDecode(testCode.v)
    /\ \E f \in files : /\ f.name = <<Lit("TestRunner.java")>>
                        /\ f.content = <<Lit("JUnitCore.runClasses")>> \o TestClass

(***************************************************************************)
(* TestRunner.java, the program of the Java harness child.  A Java String  *)
(* is a sequence of characters: "word" (letters that need no escape and    *)
(* form no escape letter), "n" and "r" (those letters), "quote",           *)
(* "backslash", "newline", "cr", "==" (an == or != sign) and the three     *)
(* marks of a JUnit comparison message, "expected:<", "> but was:<", ">".  *)
(* null is Null.                                                           *)
(***************************************************************************)
IsChar(text, i, kinds) == i \in 1..Len(text) /\ text[i].k \in kinds

\* String.replace(target, replacement), target one character
RECURSIVE replace(_, _, _)
replace(text, target, replacement) ==
  IF text = <<>> THEN <<>>
  ELSE (IF Head(text).k = target THEN replacement ELSE <<Head(text)>>)
         \o replace(Tail(text), target, replacement)

\* Pattern.compile("expected:\\s*<(.*?)>\\s*but was:\\s*<(.*?)>"), find():
\* the positions of the three marks of the leftmost match, the groups between
\* them reluctant and free of line breaks
Pattern1Matches(message) ==
  {m \in (1..Len(message)) \X (1..Len(message)) \X (1..Len(message)) :
     /\ m[1] < m[2] /\ m[2] < m[3]
     /\ message[m[1]].k = "expected:<"
     /\ message[m[2]].k = "> but was:<"
     /\ message[m[3]].k = ">"
     /\ \A t \in m[1]..m[3] : message[t].k # "newline"}

Pattern1Match(message) ==
  CHOOSE m \in Pattern1Matches(message) :
    \A o \in Pattern1Matches(message) :
      \/ m[1] < o[1]
      \/ m[1] = o[1] /\ m[2] < o[2]
      \/ m[1] = o[1] /\ m[2] = o[2] /\ m[3] <= o[3]

\* Pattern.compile("(.*?)\\s*[!=]=\\s*(.*)"), find(): the first sign, what
\* precedes it on its line (or on the line before, when only line breaks stand
\* between), and what follows it up to the end of the line
Pattern2Sign(message) == FirstIdx(message, {"=="})

Pattern2Group1(message) ==
  LET e == Pattern2Sign(message)
      n == CHOOSE n \in 1..e :
             /\ \A t \in n..(e - 1) : message[t].k = "newline"
             /\ ~IsChar(message, n - 1, {"newline"})
      s == CHOOSE s \in 1..n :
             /\ \A t \in s..(n - 1) : message[t].k # "newline"
             /\ ~(s > 1 /\ message[s - 1].k # "newline")
  IN  SubSeq(message, s, n - 1)

Pattern2Group2(message) ==
  LET e == Pattern2Sign(message)
      p == CHOOSE p \in (e + 1)..(Len(message) + 1) :
             /\ \A t \in (e + 1)..(p - 1) : message[t].k = "newline"
             /\ ~IsChar(message, p, {"newline"})
      q == CHOOSE q \in (p - 1)..Len(message) :
             /\ \A t \in p..q : message[t].k # "newline"
             /\ ~(q < Len(message) /\ message[q + 1].k # "newline")
  IN  SubSeq(message, p, q)

\* the expected and received texts the loop body extracts from a message
Extracted(message) ==
  IF Pattern1Matches(message) # {}
    THEN LET m == Pattern1Match(message)
         IN  [expected |-> SubSeq(message, m[1] + 1, m[2] - 1),
              received |-> SubSeq(message, m[2] + 1, m[3] - 1)]
  ELSE IF Pattern2Sign(message) # 0
    THEN [expected |-> Pattern2Group2(message), received |-> Pattern2Group1(message)]
  ELSE [expected |-> <<>>, received |-> <<>>]

EscapedQuote == <<Lit("backslash"), Lit("quote")>>

\* escapeForJson of the JUnit platform variant
escapeForJson(value) ==
  IF value = Null THEN <<>>
  ELSE replace(replace(replace(replace(value.v,
         "backslash", <<Lit("backslash"), Lit("backslash")>>),
         "quote", EscapedQuote),
         "newline", <<Lit("backslash"), Lit("n")>>),
         "cr", <<Lit("backslash"), Lit("r")>>)

\* what a run of the test class hands to main: the run count, the failures
\* (test header or display name, exception message) and the text the tests
\* wrote to System.out and System.err
JUnitChars == {"word", "n", "quote", "backslash", "newline", "=="}
ComparisonGroups == {<<>>} \cup {<<Lit(k)>> : k \in JUnitChars \ {"newline", "=="}}
Messages ==
  {Null} \cup {Str(m) : m \in SeqsUpTo({Lit(k) : k \in JUnitChars}, MaxOutLen)}
         \cup {Str(<<Lit("expected:<")>> \o x \o <<Lit("> but was:<")>> \o y \o <<Lit(">")>>) :
                 x \in ComparisonGroups, y \in ComparisonGroups}
TestNames == {<<Lit(k)>> : k \in {"word", "quote", "backslash", "newline"}}
RawOuts == {<<>>} \cup {<<Lit(k)>> : k \in {"quote", "backslash", "newline"}}
Failures ==
  {f \in [header : TestNames, message : Messages] :
     f.header = <<Lit("word")>> \/ f.message = S("word")}
JUnitResults ==
  {r \in [runCount : 0..(MaxCount + 1), failures : SeqsUpTo(Failures, MaxCount),
          rawout : RawOuts] :
     /\ r.runCount \in {Len(r.failures), Len(r.failures) + 1}
     /\ r.rawout # <<>> => \A i \in DOMAIN r.failures :
                              r.failures[i] = [header |-> <<Lit("word")>>,
                                               message |-> S("word")]}

\* the text main builds in json: the fixed punctuation, and the characters
\* appended between the quotes of each string
JsonText(failureCount, tests_run, passed, details) ==
  [state |-> IF failureCount = 0 THEN <<Lit("passed")>> ELSE <<Lit("failed")>>,
   tests_run |-> tests_run, passed |-> passed, failed |-> failureCount,
   failure_details |-> details]

\* the loop body of the JUnit 4 runner
Junit4Detail(failure, rawout) ==
  LET message == IF failure.message # Null THEN failure.message ELSE EmptyStr
      found == Extracted(message.v)
  IN  [test_case |-> failure.header,
       expected |-> replace(found.expected, "quote", EscapedQuote),
       received |-> replace(found.received, "quote", EscapedQuote),
       error_message |-> replace(failure.message.v, "quote", EscapedQuote),
       rawout |-> replace(replace(rawout, "quote", EscapedQuote),
                          "newline", <<Lit("backslash"), Lit("n")>>)]

\* the loop body of the JUnit platform runner
PlatformDetail(failure, rawout) ==
  LET message == IF failure.message # Null THEN failure.message ELSE EmptyStr
      found == Extracted(message.v)
  IN  [test_case |-> failure.header,
       expected |-> escapeForJson(Str(found.expected)),
       received |-> escapeForJson(Str(found.received)),
       error_message |-> escapeForJson(message),
       rawout |-> escapeForJson(Str(rawout))]

\* the harness child before main has run
Harness(result) ==
  [kind |-> "TestRunner", result |-> result, exited |-> FALSE, main |-> "",
   stdout |-> <<>>, code |-> Null]

InitRunner ==
  /\ pc = "idle"
  /\ req = Undefined
  /\ http = [status |-> 0, body |-> Undefined]
  /\ response = Undefined
  /\ config = Undefined
  /\ output = Undefined
  /\ dir = NoDir
  /\ files = {}
  /\ procs \in {<<Harness(r)>> : r \in JUnitResults}
  /\ session = NoSession
  /\ invoked = 0
  /\ shared = {}
  /\ peer = Undefined

\* TestRunner.main, JUnit 4: failure.getMessage().replace raises a
\* NullPointerException for a failure without a message, and the exception
\* leaves main before println
Junit4Main ==
  /\ ~procs[1].exited
  /\ LET r == procs[1].result
     IN  procs' =
           IF \E i \in DOMAIN r.failures : r.failures[i].message = Null
             THEN <<[procs[1] EXCEPT !.exited = TRUE, !.main = "JUnit 4", !.code = Num(1)]>>
             ELSE <<[procs[1] EXCEPT !.exited = TRUE, !.main = "JUnit 4", !.code = Num(0),
                       !.stdout = <<JsonText(Len(r.failures), r.runCount,
                                      r.runCount - Len(r.failures),
                                      [i \in DOMAIN r.failures |->
                                         Junit4Detail(r.failures[i], r.rawout)])>>]>>
  /\ UNCHANGED <<pc, req, http, response, config, output, dir, files, session,
                 invoked, shared, peer>>

\* TestRunner.main, JUnit platform
PlatformMain ==
  /\ ~procs[1].exited
  /\ LET r == procs[1].result
     IN  procs' =
           <<[procs[1] EXCEPT !.exited = TRUE, !.main = "JUnit platform", !.code = Num(0),
                !.stdout = <<JsonText(Len(r.failures), r.runCount,
                               r.runCount - Len(r.failures),
                               [i \in DOMAIN r.failures |->
                                  PlatformDetail(r.failures[i], r.rawout)])>>]>>
  /\ UNCHANGED <<pc, req, http, response, config, output, dir, files, session,
                 invoked, shared, peer>>

NextRunner == Junit4Main \/ PlatformMain

SpecRunner == InitRunner /\ [][NextRunner]_vars

\* the characters between two quotes form the body of one JSON string: no
\* bare quote or line break, every backslash followed by an escape letter
RECURSIVE JsonStringBody(_)
JsonStringBody(text) ==
  IF text = <<>> THEN TRUE
  ELSE IF Head(text).k = "backslash"
    THEN /\ IsChar(text, 2, {"quote", "backslash", "n", "r"})
         /\ JsonStringBody(Tail(Tail(text)))
  ELSE /\ Head(text).k \notin {"quote", "newline", "cr"}
       /\ JsonStringBody(Tail(text))

WellFormedDetail(d) ==
  /\ JsonStringBody(d.test_case) /\ JsonStringBody(d.expected)
  /\ JsonStringBody(d.received) /\ JsonStringBody(d.error_message)
  /\ JsonStringBody(d.rawout)

\* C32: for every outcome of the test class, once the TestRunner has exited
\* it has ended normally (exit code 0) and its stdout is exactly one
\* well-formed JSON document with state, tests_run, passed, failed and
\* failure_details.
C32_RunnerPrintsOneWellFormedDocument ==
  \A i \in DOMAIN procs :
    (procs[i].kind = "TestRunner" /\ procs[i].exited) =>
      /\ procs[i].code = Num(0)
      /\ Len(procs[i].stdout) = 1
      /\ \A k \in DOMAIN procs[i].stdout[1].failure_details :
           WellFormedDetail(procs[i].stdout[1].failure_details[k])

(***************************************************************************)
(* The totals of the output parsers.                                       *)
(***************************************************************************)
\* a Python test request has been answered after pytest ran and its output
\* went through the parse step
PytestParsed ==
  /\ Returned /\ TestMode /\ IsLang("python")
  /\ Runs # {} /\ output # Undefined

\* the text handed to the parser holds a match of 'N passed, M failed'
HasCombined(text) == \E i \in 1..Len(text) : text[i].k = "N passed, M failed"

\* C33: for every pytest output text, when 'N passed, M failed' matches,
\* passed = N and failed = M of its first match; otherwise passed is the count
\* of the first 'N passed' match (0 if none) and failed the count of the first
\* 'M failed' match (0 if none); in every case tests_run = passed + failed.
C33_PytestTotals ==
  PytestParsed =>
    LET text == output.stdout.v
        firstOf(kinds) == CHOOSE i \in 1..Len(text) :
                            text[i].k \in kinds /\ \A j \in 1..(i - 1) : text[j].k \notin kinds
        has(kinds) == \E i \in 1..Len(text) : text[i].k \in kinds
        passedText == {"M failed, N passed", "N passed"}
        failedText == {"M failed, N passed", "M failed"}
    IN  /\ HasCombined(text) =>
             /\ Result.passed = Num(text[firstOf({"N passed, M failed"})].a)
             /\ Result.failed = Num(text[firstOf({"N passed, M failed"})].b)
        /\ (~HasCombined(text) /\ has(passedText)) =>
             Result.passed = Num(IF text[firstOf(passedText)].k = "N passed"
                                   THEN text[firstOf(passedText)].a
                                   ELSE text[firstOf(passedText)].b)
        /\ (~HasCombined(text) /\ ~has(passedText)) => Result.passed = Num(0)
        /\ (~HasCombined(text) /\ has(failedText)) =>
             Result.failed = Num(text[firstOf(failedText)].a)
        /\ (~HasCombined(text) /\ ~has(failedText)) => Result.failed = Num(0)
        /\ Result.tests_run = Num(Result.passed.v + Result.failed.v)

\* pytest's own summary order, '1 failed, 1 passed', is read through the two
\* standalone matches
C33_Witness ==
  /\ PytestParsed
  /\ ~HasCombined(output.stdout.v)
  /\ \E i \in 1..Len(output.stdout.v) :
       output.stdout.v[i] = Frag("M failed, N passed", 1, 1)
  /\ Result.passed = Num(1) /\ Result.failed = Num(1) /\ Result.tests_run = Num(2)

\* a C++ test request has been answered after the runner ran and its output
\* went through the parse step
CxxTestParsed ==
  /\ Returned /\ TestMode /\ IsLang("cpp")
  /\ RunnerLaunches # {} /\ output # Undefined

\* C34: for every CxxTest output text, tests_run is the N of the first
\* 'Running cxxtest tests (N tests)' (0 if absent) and failed is 0, unless
\* 'Failed F and Skipped S of T tests' is present, in which case failed = F and
\* tests_run = T regardless of N; passed = tests_run - failed.
C34_CxxTestTotals ==
  CxxTestParsed =>
    LET text == HarnessStdout
        running == {i \in 1..Len(text) : text[i].k = "Running cxxtest tests (N tests)"}
        failedLine == {i \in 1..Len(text) : text[i].k = "Failed F and Skipped S of T tests"}
        first(set) == CHOOSE i \in set : \A j \in set : i <= j
    IN  /\ failedLine # {} =>
             /\ Result.failed = Num(text[first(failedLine)].a)
             /\ Result.tests_run = Num(text[first(failedLine)].b)
        /\ failedLine = {} =>
             /\ Result.failed = Num(0)
             /\ Result.tests_run =
                  Num(IF running # {} THEN text[first(running)].a ELSE 0)
        /\ Result.passed = Num(Result.tests_run.v - Result.failed.v)

\* a runner that announces two tests and reports 'Failed 1 ... of 1 tests':
\* the totals are those of the failure line
C34_Witness ==
  /\ CxxTestParsed
  /\ HarnessStdout = <<Frag("Running cxxtest tests (N tests)", 2, 0),
                       Frag("Failed F and Skipped S of T tests", 1, 1)>>
  /\ Result.tests_run = Num(1) /\ Result.failed = Num(1) /\ Result.passed = Num(0)

(***************************************************************************)
(* Totality of the parse steps.                                            *)
(***************************************************************************)
\* the text the parse step of the answered request was given
ParsedText == IF IsLang("python") THEN output.stdout.v ELSE HarnessStdout

\* the numbers of failures the runner's summary lines report
ReportedFailures(text) ==
  {text[i].a : i \in {j \in 1..Len(text) :
                        text[j].k \in {"M failed, N passed", "M failed",
                                       "Failed F and Skipped S of T tests",
                                       "Failed F and Skipped S of 1 test"}}}
    \cup {text[i].b : i \in {j \in 1..Len(text) : text[j].k = "N passed, M failed"}}

\* the parser recognises no totals line in the text
NoTotalsFound(text) ==
  \A i \in 1..Len(text) :
    text[i].k \notin {"N passed, M failed", "M failed, N passed", "N passed", "M failed",
                      "Running cxxtest tests (N tests)",
                      "Failed F and Skipped S of T tests"}

\* the text holds nothing a failure entry can be parsed from
NoFailureBlock(text) ==
  \A i \in 1..Len(text) :
    text[i].k \notin {"failure block", "Error: Expected (L), found (R)"}

\* C35: the pytest and CxxTest parse steps never raise: whatever the runner
\* printed and however it ended, the Result carries numeric counts and state
\* passed or failed; the counts are all 0 when no totals line is found; and
\* when the runner reports F > 0 failures and no failure block can be parsed,
\* failure_details is empty while failed = F.
C35_ParsersAreTotal ==
  (PytestParsed \/ CxxTestParsed) =>
    /\ Result.state \in {S("passed"), S("failed")}
    /\ Result.tests_run.t = "number" /\ Result.passed.t = "number"
    /\ Result.failed.t = "number" /\ Result.failure_details.t = "array"
    /\ NoTotalsFound(ParsedText) =>
         (Result.tests_run = Num(0) /\ Result.passed = Num(0) /\ Result.failed = Num(0))
    /\ \A F \in Counts :
         (ReportedFailures(ParsedText) = {F} /\ NoFailureBlock(ParsedText)) =>
           (Result.failure_details = Arr(<<>>) /\ Result.failed = Num(F))

(***************************************************************************)
(* The failure entries of a test-mode Result.                              *)
(***************************************************************************)
\* the places of the runner output a failure entry is parsed from, in order
FailurePlaces(text) ==
  SelectFrags(text, {"failure block", "Error: Expected (L), found (R)"})

\* C36: in every test-mode Result built from the runner's output, failed is a
\* number, failure_details a list with at most failed entries, and the entries
\* come in the order of the failures in the runner output (for pytest and
\* CxxTest: entry i is the entry of the i-th place a failure is parsed from,
\* which for pytest lies in the FAILURES section).
C36_DetailsWithinFailed ==
  HarnessOutputParsed =>
    /\ Result.failed.t = "number"
    /\ Result.failure_details.t = "array"
    /\ Len(Result.failure_details.v) <= Result.failed.v
    /\ PytestParsed =>
         \A i \in DOMAIN Result.failure_details.v :
           /\ i <= Len(FailurePlaces(PytestFailureBlocks(ParsedText)))
           /\ Result.failure_details.v[i].error_message =
                Str(<<Lit("Assertion failed: "),
                      Frag("assertion",
                           FailurePlaces(PytestFailureBlocks(ParsedText))[i].b, 0)>>)
    /\ CxxTestParsed =>
         \A i \in DOMAIN Result.failure_details.v :
           /\ i <= Len(FailurePlaces(ParsedText))
           /\ Result.failure_details.v[i].test_case = Str(<<Frag("Test N", i, 0)>>)
           /\ Result.failure_details.v[i].expected =
                CppFailure(FailurePlaces(ParsedText)[i], i, <<>>, <<>>).expected

(***************************************************************************)
(* The Python test file.                                                   *)
(***************************************************************************)
PythonTestRequest ==
  /\ req # Undefined /\ Truthy(req.language) /\ Truthy(req.code)
  /\ TestMode /\ IsLang("python")

\* C37: in Python test mode, when pytest is running the workspace holds
\* test_program.py with exactly the request's testCode; an answered request
\* has state compile_error only if a write to the workspace failed; and
\* unless a write failed, pytest was launched, whatever the testCode.
C37_TestCodeWrittenVerbatim ==
  PythonTestRequest =>
    /\ pc = "runTest" =>
         \E f \in files : /\ f.name = <<Lit("test_program.py")>>
                          /\ f.content = testCode.v
    /\ (Returned /\ Result.state = S("compile_error")) => dir.fsFailed
    /\ (Returned /\ ~dir.fsFailed) => \E i \in Runs : procs[i].command = "pytest"

(***************************************************************************)
(* Progress.  What the runtime guarantees once a request is in executeCode:*)
(* a timer that was set and not cleared fires; and, as the premises of the *)
(* statement below, a filesystem operation settles and a compile child     *)
(* closes or fails to start.  Nothing is assumed of a run child: it may    *)
(* ignore the signal and never close.                                      *)
(***************************************************************************)
\* a setTimeout of runProgram is pending: its callback can run
TimerPending == \E i \in AliveRuns : procs[i].timer = "pending"

\* WF_vars(\E i \in AliveRuns : RunTimer(i)), with the enabling condition of
\* the callback written as the state predicate it is
TimerFairness ==
  \/ []<>~TimerPending
  \/ []<><<\E i \in AliveRuns : RunTimer(i)>>_vars

Fairness ==
  /\ WF_vars(\E ok \in BOOLEAN : MkdirDone(ok))
  /\ WF_vars(\E ok \in BOOLEAN : WriteCodeDone(ok))
  /\ WF_vars(\E ok \in BOOLEAN : WriteTestDone(ok))
  /\ WF_vars(\E ok \in BOOLEAN : CopyRunnerDone(ok))
  /\ WF_vars(\E ok \in BOOLEAN : CleanupDone(ok))
  /\ WF_vars(CompileError \/ \E code \in ExitCodes, stderr \in Stderrs :
                               CompileClose(code, stderr))
  /\ TimerFairness

SpecLive == Spec /\ Fairness

\* the request is in the handler of POST /execute
InHandler == req # Undefined

\* C38: a request that has reached the handler of POST /execute is eventually
\* answered, and once answered its response never changes, provided compile
\* steps end and filesystem operations settle; no assumption is made on the
\* run child.
C38_AnsweredExactlyOnce ==
  /\ InHandler ~> Responded
  /\ [][Responded => http' = http]_vars

\* answered although the run child outlived its deadline: it was signalled,
\* is still running and has closed nothing
C38_Witness ==
  /\ Responded /\ invoked = 1
  /\ \E i \in Runs : /\ procs[i].timer = "fired" /\ procs[i].killed
                     /\ procs[i].alive /\ procs[i].calls = 1

(***************************************************************************)
(* Teardown and the request's children.                                    *)
(***************************************************************************)
\* cleanupDir has been called: fs.rm is at work on the workspace or has
\* removed it
TeardownStarted == pc = "cleanup" \/ dir.removed > 0

\* C39: from the moment cleanupDir starts, no child launched for the request
\* is still running: every compile and run child has ended, the child of a
\* run that timed out included.
C39_NoChildOutlivesWorkspace ==
  TeardownStarted => AliveChildren = {}

====
